---- MODULE Spec2Model ----
(***************************************************************************)
(* Model of the connection pool of odata-active-record                     *)
(* (packages/odata-active-record-core/src/providers/connection-pool.ts).   *)
(*                                                                         *)
(* The pool runs on one event loop: every `await` of the source is a       *)
(* suspension point, so each asynchronous method is a small process whose  *)
(* position is kept in the state and whose code between two suspension     *)
(* points is one atomic action.                                            *)
(***************************************************************************)
EXTENDS Integers, Sequences, FiniteSets, TLC

\* ---------------------------------------------------------------- bounds
ConnectionIds == {"A", "B"}          \* connection ids the callers use
Callers == {1, 2}                    \* concurrent getConnection calls
MaxHandles == 2                      \* successful connector invocations
MaxRetryCount == 4                   \* cap of a stored retry counter
MaxOps == 4                          \* calls, timer ticks and backend
                                     \* failures in one run

\* ------------------------------------------------------ program constants
maxRetries == 3
retryDelay == 1000
healthCheckInterval == 30000

ConnectionTypes == {"mongodb", "sqlite", "http-odata"}
Configs == [type : ConnectionTypes]

\* the (connectionId, config) pairs the callers ask for
Requests ==
    {<<"A", [type |-> "sqlite"]>>, <<"A", [type |-> "http-odata"]>>,
     <<"B", [type |-> "mongodb"]>>}

None == 0                            \* `undefined`

VARIABLES
    connections,        \* Map<string, any>: id -> handle
    connectionConfigs,  \* Map<string, IConnectionConfig>
    healthChecks,       \* Map<string, NodeJS.Timeout>: id -> timer
    retryAttempts,      \* Map<string, number>
    intervals,          \* timers set by setInterval and not yet cleared
    sweepScheduled,     \* the pool-wide interval of the constructor
    issued,             \* handles returned by the connector, with the
                        \* closure (connectionId, config) of their timer
    failing,            \* handles whose backend no longer answers a probe
    closed,             \* handles the pool has closed
    calls,              \* the getConnection calls and where each stands
    checks,             \* per-connection callbacks awaiting their probe
    sweeps,             \* probes started by the pool-wide sweep
    closer,             \* where closeAll stands
    ops,                \* calls, ticks and backend failures so far
    currentQuery,       \* the Query a provider is asked to run
    store,              \* the rows of the entity in the backend
    reachable,          \* whether the backend answers
    native,             \* the three translations of the query
    response,           \* what the last provider call returned
    recordErrors,       \* ActiveRecord.errors: the codes pushed so far
    sessions            \* per provider: connected, the backend handles
                        \* created, the one held, what the last call returned

vars == <<connections, connectionConfigs, healthChecks, retryAttempts,
          intervals, sweepScheduled, issued, failing, closed, calls,
          checks, sweeps, closer, ops,
          currentQuery, store, reachable, native, response,
          recordErrors, sessions>>

\* the state of the providers, which the pool never touches
providerVars == <<currentQuery, store, reachable, native, response,
                  recordErrors, sessions>>

\* the state of the pool and of its callers
poolState == <<connections, connectionConfigs, healthChecks, retryAttempts,
               intervals, sweepScheduled, issued, failing, closed, calls,
               checks, sweeps, closer, ops>>

poolVars == <<connections, connectionConfigs, healthChecks, retryAttempts,
              intervals, closed>>

\* ------------------------------------------------------------ Map helpers
EmptyMap == [k \in {} |-> None]

MapHas(m, k) == k \in DOMAIN m

MapGet(m, k) == IF k \in DOMAIN m THEN m[k] ELSE None

MapSet(m, k, v) == [x \in DOMAIN m \cup {k} |-> IF x = k THEN v ELSE m[x]]

MapDelete(m, k) == [x \in DOMAIN m \ {k} |-> m[x]]

\* ------------------------------------------------- handles and their kind
Handles == 1..Len(issued)

HandleType(h) == issued[h].config.type

TimerId(t) == issued[t].connectionId

TimerConfig(t) == issued[t].config

\* isConnectionHealthy(connection, config): the probe is chosen by the type
\* of the config passed in; a handle of another kind makes it throw or read
\* an undefined flag, both of which answer false.
isConnectionHealthy(connection, config) ==
    /\ connection \in Handles
    /\ HandleType(connection) = config.type
    /\ connection \notin failing
    /\ connection \notin closed

\* ------------------------------------------------------------- the pool
Pool ==
    [connections |-> connections, connectionConfigs |-> connectionConfigs,
     healthChecks |-> healthChecks, retryAttempts |-> retryAttempts,
     intervals |-> intervals, closed |-> closed]

SetPool(p) ==
    /\ connections' = p.connections
    /\ connectionConfigs' = p.connectionConfigs
    /\ healthChecks' = p.healthChecks
    /\ retryAttempts' = p.retryAttempts
    /\ intervals' = p.intervals
    /\ closed' = p.closed

\* removeConnection that forgets clearInterval
removeConnectionKeepsTimer(p, connectionId) ==
    [connections |-> MapDelete(p.connections, connectionId),
     connectionConfigs |-> MapDelete(p.connectionConfigs, connectionId),
     retryAttempts |-> MapDelete(p.retryAttempts, connectionId),
     healthChecks |-> MapDelete(p.healthChecks, connectionId),
     intervals |-> p.intervals,
     closed |-> IF /\ MapHas(p.connections, connectionId)
                   /\ MapHas(p.connectionConfigs, connectionId)
                   /\ p.connectionConfigs[connectionId].type
                          \in {"mongodb", "sqlite"}
                THEN p.closed \cup {p.connections[connectionId]}
                ELSE p.closed]

\* removeConnection that returns early when the id has no connection
removeConnectionOnlyStored(p, connectionId) ==
    IF ~MapHas(p.connections, connectionId) THEN p
    ELSE [connections |-> MapDelete(p.connections, connectionId),
          connectionConfigs |-> MapDelete(p.connectionConfigs, connectionId),
          retryAttempts |-> MapDelete(p.retryAttempts, connectionId),
          healthChecks |-> MapDelete(p.healthChecks, connectionId),
          intervals |-> IF MapHas(p.healthChecks, connectionId)
                        THEN p.intervals \ {p.healthChecks[connectionId]}
                        ELSE p.intervals,
          closed |-> IF /\ MapHas(p.connectionConfigs, connectionId)
                        /\ p.connectionConfigs[connectionId].type
                               \in {"mongodb", "sqlite"}
                     THEN p.closed \cup {p.connections[connectionId]}
                     ELSE p.closed]

\* removeConnection(connectionId), as a function of the pool
removeConnection(p, connectionId) ==
    LET connection == MapGet(p.connections, connectionId)
        closes == /\ connection # None
                  /\ MapHas(p.connectionConfigs, connectionId)
                  /\ p.connectionConfigs[connectionId].type
                         \in {"mongodb", "sqlite"}
    IN [connections |-> MapDelete(p.connections, connectionId),
        connectionConfigs |-> MapDelete(p.connectionConfigs, connectionId),
        retryAttempts |-> MapDelete(p.retryAttempts, connectionId),
        healthChecks |-> MapDelete(p.healthChecks, connectionId),
        intervals |-> IF MapHas(p.healthChecks, connectionId)
                      THEN p.intervals \ {p.healthChecks[connectionId]}
                      ELSE p.intervals,
        closed |-> IF closes THEN p.closed \cup {connection} ELSE p.closed]

\* startConnectionHealthCheck(connectionId, config), with t the new timer
startConnectionHealthCheck(p, connectionId, t) ==
    LET cleared == IF MapHas(p.healthChecks, connectionId)
                   THEN p.intervals \ {p.healthChecks[connectionId]}
                   ELSE p.intervals
    IN [p EXCEPT !.intervals = cleared \cup {t},
                 !.healthChecks = MapSet(p.healthChecks, connectionId, t)]

\* getConnectionStats(): the value returned (the probes it starts answer
\* after the return, so the healthy count it returns is still 0)
getConnectionStats(p) ==
    [connected |-> Cardinality(DOMAIN p.connections) > 0,
     activeConnections |-> 0,
     totalQueries |-> 0,
     averageQueryTime |-> 0]

\* -------------------------------------------------- providers at rest
\* no query has been given, translated or answered yet
NoQuery == [filter |-> << >>, select |-> << >>, orderBy |-> << >>,
            pagination |-> << >>]

NoNative == [sql |-> << >>, where |-> << >>, params |-> << >>,
             mongo |-> << >>, odata |-> << >>, filterString |-> << >>]

NoResponse ==
    [provider |-> "none", method |-> "none", success |-> FALSE,
     data |-> << >>, count |-> 0, affectedCount |-> 0, errors |-> << >>]

\* a provider after its constructor: connected = false, no client or
\* database yet (handle 0), no backend handle created, no call returned
NewSession ==
    [connected |-> FALSE, handle |-> 0, handles |-> << >>,
     returned |-> "none"]

NoSessions ==
    [provider \in ConnectionTypes |-> NewSession]

\* ------------------------------------------------------------------ Init
IdleCall ==
    [pc |-> "idle", connectionId |-> "A", config |-> [type |-> "sqlite"],
     attempt |-> 0, invocations |-> 0, connection |-> None,
     lastError |-> None, delay |-> 0, result |-> None,
     error |-> None]

\* the pool after its constructor
PoolInit ==
    /\ connections = EmptyMap
    /\ connectionConfigs = EmptyMap
    /\ healthChecks = EmptyMap
    /\ retryAttempts = EmptyMap
    /\ intervals = {}
    /\ sweepScheduled = TRUE
    /\ issued = << >>
    /\ failing = {}
    /\ closed = {}
    /\ calls = [c \in Callers |-> IdleCall]
    /\ checks = {}
    /\ sweeps = {}
    /\ closer = "idle"
    /\ ops = 0

Init ==
    /\ PoolInit
    /\ currentQuery = NoQuery
    /\ store = << >>
    /\ reachable = TRUE
    /\ native = NoNative
    /\ response = NoResponse
    /\ recordErrors = << >>
    /\ sessions = NoSessions

\* one more call into the pool, timer tick or backend failure
Op == ops < MaxOps /\ ops' = ops + 1

\* --------------------------------------------------------- getConnection
maxAttempts == maxRetries + 1

\* a delay that grows by retryDelay with every attempt
BackoffDelayLinear(attempt) == retryDelay * attempt

\* the delay before the attempt that follows failed attempt `attempt`
BackoffDelay(attempt) == retryDelay * (2 ^ (attempt - 1))

\* entry of createConnectionWithRetry: the first connector invocation
EnterRetry(call) ==
    [call EXCEPT !.pc = "connecting", !.attempt = 1,
                 !.invocations = call.invocations + 1]

\* getConnection without the reuse of a healthy record
GetConnectionAlwaysCreates(c, connectionId, config) ==
    /\ Op
    /\ UNCHANGED providerVars
    /\ calls[c].pc = "idle"
    /\ calls' = [calls EXCEPT ![c] =
           EnterRetry([IdleCall EXCEPT !.connectionId = connectionId,
                                       !.config = config])]
    /\ UNCHANGED <<poolVars, sweepScheduled, issued, failing, checks,
                   sweeps, closer>>

\* getConnection that waits while another call connects the same id
GetConnectionDeduplicated(c, connectionId, config) ==
    /\ Op
    /\ UNCHANGED providerVars
    /\ calls[c].pc = "idle"
    /\ LET call == [IdleCall EXCEPT !.connectionId = connectionId,
                                    !.config = config]
           inFlight == \E d \in Callers \ {c} :
                           /\ calls[d].pc \in {"connecting", "sleeping"}
                           /\ calls[d].connectionId = connectionId
       IN calls' = [calls EXCEPT ![c] =
              IF MapHas(connections, connectionId)
              THEN [call EXCEPT !.pc = "probing",
                                !.connection = connections[connectionId]]
              ELSE IF inFlight THEN [call EXCEPT !.pc = "sleeping"]
              ELSE EnterRetry(call)]
    /\ UNCHANGED <<poolVars, sweepScheduled, issued, failing, checks,
                   sweeps, closer>>

\* getConnection(connectionId, config) up to its first await
GetConnection(c, connectionId, config) ==
    /\ Op
    /\ UNCHANGED providerVars
    /\ calls[c].pc = "idle"
    /\ LET call == [IdleCall EXCEPT !.connectionId = connectionId,
                                    !.config = config]
       IN calls' = [calls EXCEPT ![c] =
              IF MapHas(connections, connectionId)
              THEN [call EXCEPT !.pc = "probing",
                                !.connection = connections[connectionId]]
              ELSE EnterRetry(call)]
    /\ UNCHANGED <<poolVars, sweepScheduled, issued, failing, checks,
                   sweeps, closer>>

\* the await of isConnectionHealthy in getConnection answers
HealthAnswer(c) ==
    /\ UNCHANGED <<ops, providerVars>>
    /\ calls[c].pc = "probing"
    /\ calls' = [calls EXCEPT ![c] =
           IF isConnectionHealthy(calls[c].connection, calls[c].config)
           THEN [calls[c] EXCEPT !.pc = "returned",
                                 !.result = calls[c].connection]
           ELSE EnterRetry(calls[c])]
    /\ UNCHANGED <<poolVars, sweepScheduled, issued, failing, checks,
                   sweeps, closer>>

\* the count stored for the id when an attempt succeeds
RetryCountOnSuccess(p, connectionId) == 0

\* createConnection resolves: the try block of createConnectionWithRetry
ConnectionEstablished(c) ==
    /\ UNCHANGED <<ops, providerVars>>
    /\ calls[c].pc = "connecting"
    /\ Len(issued) < MaxHandles
    /\ LET connectionId == calls[c].connectionId
           config == calls[c].config
           connection == Len(issued) + 1
           stored == [Pool EXCEPT
               !.connections = MapSet(connections, connectionId, connection),
               !.connectionConfigs =
                   MapSet(connectionConfigs, connectionId, config),
               !.retryAttempts =
                   MapSet(retryAttempts, connectionId,
                          RetryCountOnSuccess(Pool, connectionId))]
       IN /\ issued' = Append(issued, [connectionId |-> connectionId,
                                       config |-> config])
          /\ SetPool(startConnectionHealthCheck(stored, connectionId,
                                                connection))
          /\ calls' = [calls EXCEPT ![c].pc = "returned",
                                    ![c].result = connection]
    /\ UNCHANGED <<sweepScheduled, failing, checks, sweeps, closer>>

\* a failure counted in one counter shared by every id
CountFailureEveryId(p, connectionId) ==
    LET ids == DOMAIN p.retryAttempts \cup {connectionId}
    IN [p EXCEPT !.retryAttempts =
           [id \in ids |-> MapGet(p.retryAttempts, id) + 1]]

\* the pool after the catch block has counted a failed attempt
CountFailure(p, connectionId) ==
    [p EXCEPT !.retryAttempts =
        MapSet(p.retryAttempts, connectionId,
               MapGet(p.retryAttempts, connectionId) + 1)]

\* createConnection rejects: the catch block, then the backoff sleep or,
\* after the last attempt, the throw that ends the loop
ConnectionAttemptFailed(c) ==
    /\ UNCHANGED <<ops, providerVars>>
    /\ calls[c].pc = "connecting"
    /\ MapGet(retryAttempts, calls[c].connectionId) < MaxRetryCount
    /\ SetPool(CountFailure(Pool, calls[c].connectionId))
    /\ calls' = [calls EXCEPT ![c] =
           IF calls[c].attempt < maxAttempts
           THEN [calls[c] EXCEPT !.pc = "sleeping",
                                 !.lastError = calls[c].attempt,
                                 !.delay = BackoffDelay(calls[c].attempt)]
           ELSE [calls[c] EXCEPT !.pc = "thrown",
                                 !.lastError = calls[c].attempt,
                                 !.error = calls[c].attempt]]
    /\ UNCHANGED <<sweepScheduled, issued, failing, checks, sweeps, closer>>

\* the sleep resolves: next iteration of the loop, next connector invocation
BackoffElapsed(c) ==
    /\ UNCHANGED <<ops, providerVars>>
    /\ calls[c].pc = "sleeping"
    /\ calls' = [calls EXCEPT ![c].pc = "connecting",
                              ![c].attempt = calls[c].attempt + 1,
                              ![c].invocations = calls[c].invocations + 1,
                              ![c].delay = 0]
    /\ UNCHANGED <<poolVars, sweepScheduled, issued, failing, checks,
                   sweeps, closer>>

\* the caller has taken the handle or the error; it may call again
CallSettled(c) ==
    /\ UNCHANGED <<ops, providerVars>>
    /\ calls[c].pc \in {"returned", "thrown"}
    /\ calls' = [calls EXCEPT ![c] = IdleCall]
    /\ UNCHANGED <<poolVars, sweepScheduled, issued, failing, checks,
                   sweeps, closer>>

\* ------------------------------------------ per-connection health checks
\* a tick of the interval of startConnectionHealthCheck, up to its await
HealthCheckTick(t) ==
    /\ Op
    /\ UNCHANGED providerVars
    /\ t \in intervals
    /\ \A k \in checks : k.timer # t
    /\ MapGet(connections, TimerId(t)) # None
    /\ checks' = checks \cup
           {[timer |-> t, connection |-> connections[TimerId(t)]]}
    /\ UNCHANGED <<poolVars, sweepScheduled, issued, failing, calls,
                   sweeps, closer>>

\* a callback that only reports a failed probe
AfterHealthCheckReportOnly(p, connectionId, isHealthy) == p

\* the pool after the callback has its answer
AfterHealthCheck(p, connectionId, isHealthy) ==
    IF isHealthy THEN p ELSE removeConnection(p, connectionId)

\* the probe of the callback answers
HealthCheckAnswer(k) ==
    /\ UNCHANGED <<ops, providerVars>>
    /\ k \in checks
    /\ checks' = checks \ {k}
    /\ SetPool(AfterHealthCheck(Pool, TimerId(k.timer),
           isConnectionHealthy(k.connection, TimerConfig(k.timer))))
    /\ UNCHANGED <<sweepScheduled, issued, failing, calls, sweeps, closer>>

\* ------------------------------------------------------ pool-wide sweep
\* a tick of the interval of startHealthChecks: one probe per record
SweepTick ==
    /\ Op
    /\ UNCHANGED providerVars
    /\ sweepScheduled
    /\ sweeps = {}
    /\ DOMAIN connections # {}
    /\ sweeps' = {[connectionId |-> id, connection |-> connections[id],
                   config |-> connectionConfigs[id]] :
                  id \in DOMAIN connections \cap DOMAIN connectionConfigs}
    /\ UNCHANGED <<poolVars, sweepScheduled, issued, failing, calls,
                   checks, closer>>

\* a sweep whose failed probe removes the record
SweepAnswerEvicts(s) ==
    /\ UNCHANGED <<ops, providerVars>>
    /\ s \in sweeps
    /\ sweeps' = sweeps \ {s}
    /\ SetPool(IF isConnectionHealthy(s.connection, s.config) THEN Pool
               ELSE removeConnection(Pool, s.connectionId))
    /\ UNCHANGED <<sweepScheduled, issued, failing, calls, checks, closer>>

\* a probe of the sweep answers: a warning at most
SweepAnswer(s) ==
    /\ UNCHANGED <<ops, providerVars>>
    /\ s \in sweeps
    /\ sweeps' = sweeps \ {s}
    /\ UNCHANGED <<poolVars, sweepScheduled, issued, failing, calls,
                   checks, closer>>

\* ------------------------------------------- removeConnection, closeAll
RemoveConnection(connectionId) ==
    /\ Op
    /\ UNCHANGED providerVars
    /\ SetPool(removeConnection(Pool, connectionId))
    /\ UNCHANGED <<sweepScheduled, issued, failing, calls, checks, sweeps,
                   closer>>

RECURSIVE removeAll(_, _)
removeAll(p, ids) ==
    IF ids = {} THEN p
    ELSE LET connectionId == CHOOSE x \in ids : TRUE
         IN removeAll(removeConnection(p, connectionId),
                      ids \ {connectionId})

MapValues(m) == {m[k] : k \in DOMAIN m}

\* a closeAll that removes one connection only
closeAllRemoveFirst(p) ==
    IF DOMAIN p.connections = {} THEN p
    ELSE removeConnection(p, CHOOSE x \in DOMAIN p.connections : TRUE)

\* the first half of closeAll, as a function of the pool
closeAllRemove(p) == removeAll(p, DOMAIN p.connections)

\* the second half of closeAll, as a function of the pool
closeAllClear(p) ==
    [p EXCEPT !.intervals = p.intervals \ MapValues(p.healthChecks),
              !.healthChecks = EmptyMap]

\* closeAll up to `await Promise.all`
CloseAllBegin ==
    /\ Op
    /\ UNCHANGED providerVars
    /\ closer = "idle"
    /\ SetPool(closeAllRemove(Pool))
    /\ closer' = "awaiting"
    /\ UNCHANGED <<sweepScheduled, issued, failing, calls, checks, sweeps>>

\* closeAll after the await: clear all health checks
CloseAllEnd ==
    /\ UNCHANGED <<ops, providerVars>>
    /\ closer = "awaiting"
    /\ SetPool(closeAllClear(Pool))
    /\ closer' = "resolved"
    /\ UNCHANGED <<sweepScheduled, issued, failing, calls, checks, sweeps>>

CloseAllSettled ==
    /\ UNCHANGED <<ops, providerVars>>
    /\ closer = "resolved"
    /\ closer' = "idle"
    /\ UNCHANGED <<poolVars, sweepScheduled, issued, failing, calls,
                   checks, sweeps>>

\* ------------------------------------------------------------ environment
\* the handles the pool or one of its pending probes still holds
Referenced ==
    MapValues(connections) \cup {calls[c].connection : c \in Callers}
        \cup {k.connection : k \in checks}
        \cup {s.connection : s \in sweeps}

\* the backend behind a handle stops answering its probe
ProbeStartsFailing(h) ==
    /\ Op
    /\ UNCHANGED providerVars
    /\ h \in Referenced \ failing
    /\ failing' = failing \cup {h}
    /\ UNCHANGED <<poolVars, sweepScheduled, issued, calls, checks, sweeps,
                   closer>>

Next ==
    \/ \E c \in Callers, r \in Requests : GetConnection(c, r[1], r[2])
    \/ \E c \in Callers : HealthAnswer(c)
    \/ \E c \in Callers : ConnectionEstablished(c)
    \/ \E c \in Callers : ConnectionAttemptFailed(c)
    \/ \E c \in Callers : BackoffElapsed(c)
    \/ \E c \in Callers : CallSettled(c)
    \/ \E t \in intervals : HealthCheckTick(t)
    \/ \E k \in checks : HealthCheckAnswer(k)
    \/ SweepTick
    \/ \E s \in sweeps : SweepAnswer(s)
    \/ \E connectionId \in ConnectionIds : RemoveConnection(connectionId)
    \/ CloseAllBegin
    \/ CloseAllEnd
    \/ CloseAllSettled
    \/ \E h \in Handles : ProbeStartsFailing(h)

Spec == Init /\ [][Next]_vars

TypeOK ==
    /\ DOMAIN connections \subseteq ConnectionIds
    /\ \A id \in DOMAIN connections : connections[id] \in Handles
    /\ intervals \subseteq Handles
    /\ closed \subseteq Handles
    /\ failing \subseteq Handles

\* ======================================================================
\* Properties
\* ======================================================================
\* the id a call works on, read in the state where its step ends
CallId(c) == calls[c].connectionId

\* no map of the pool has an entry for the id and no timer runs for it
NoRecord(p, connectionId) ==
    /\ ~MapHas(p.connections, connectionId)
    /\ ~MapHas(p.connectionConfigs, connectionId)
    /\ ~MapHas(p.retryAttempts, connectionId)
    /\ ~MapHas(p.healthChecks, connectionId)
    /\ \A t \in p.intervals : TimerId(t) # connectionId

\* C1 (as the spec states it): when the connector has failed twice for an
\* id without a record and succeeds on the third invocation of one
\* getConnection call, the call returns the stored handle after exactly 3
\* invocations and the retry count stored for the id is 2.
C1_RetryBound ==
    [][\A c \in Callers :
          (/\ calls[c].pc = "connecting"
           /\ calls[c].attempt = 3
           /\ ~MapHas(connections, calls[c].connectionId)
           /\ MapGet(retryAttempts, calls[c].connectionId) = 2
           /\ calls'[c].pc = "returned")
          => /\ calls'[c].invocations = 3
             /\ calls'[c].result = MapGet(connections', CallId(c))
             /\ MapGet(retryAttempts', CallId(c)) = 2]_vars

\* C2 (as the spec states it): when the fourth connector invocation of a
\* getConnection call fails, the call throws the last failure after
\* exactly 4 invocations and the pool keeps no record for the id: no
\* handle, config, retry count or health timer.
C2_RetryExhaustion ==
    [][\A c \in Callers :
          (calls[c].pc # "thrown" /\ calls'[c].pc = "thrown")
          => /\ calls'[c].invocations = maxRetries + 1
             /\ calls'[c].error = calls'[c].lastError
             /\ calls'[c].error = maxRetries + 1
             /\ NoRecord(Pool, CallId(c))']_vars

\* C3: a getConnection call that finds a record reads the stored handle
\* and probes it without invoking the connector; when the probe answers
\* healthy the call returns that handle, still without any connector
\* invocation, and no map, timer or handle of the pool has changed.
C3_HealthyHit ==
    [][\A c \in Callers :
          /\ (/\ calls[c].pc = "idle"
              /\ calls'[c].pc # "idle"
              /\ MapHas(connections, calls'[c].connectionId))
             => /\ calls'[c].pc = "probing"
                /\ calls'[c].connection = connections[calls'[c].connectionId]
                /\ calls'[c].invocations = 0
                /\ UNCHANGED <<poolVars, issued>>
          /\ (/\ calls[c].pc = "probing"
              /\ calls'[c] # calls[c]
              /\ isConnectionHealthy(calls[c].connection, calls[c].config))
             => /\ calls'[c].pc = "returned"
                /\ calls'[c].result = calls[c].connection
                /\ calls'[c].invocations = 0
                /\ UNCHANGED <<poolVars, issued>>]_vars

\* a call has returned the stored handle without invoking the connector
C3_Witness ==
    \E c \in Callers :
        /\ calls[c].pc = "returned"
        /\ calls[c].invocations = 0
        /\ calls[c].result # None
        /\ MapGet(connections, calls[c].connectionId) = calls[c].result

C5_RemoveConnection ==
    /\ [](\A t \in intervals : MapGet(healthChecks, TimerId(t)) = t)
    /\ [][\A id \in ConnectionIds :
             (MapHas(connections, id) /\ ~MapHas(connections', id))
             => /\ connectionConfigs[id].type \in {"mongodb", "sqlite"}
                   => connections[id] \in closed'
                /\ connectionConfigs[id].type = "http-odata"
                   => connections[id] \notin closed'
                /\ NoRecord(Pool, id)']_vars

\* a closed handle whose id has nothing left in the pool
C5_Witness ==
    \E h \in closed :
        /\ NoRecord(Pool, TimerId(h))
        /\ h \notin intervals

closeAll(p) == closeAllClear(closeAllRemove(p))

PoolIsEmpty(p) ==
    /\ p.connections = EmptyMap
    /\ p.connectionConfigs = EmptyMap
    /\ p.healthChecks = EmptyMap
    /\ p.intervals = {}

C8_CloseAllCancelsEveryTimer ==
    [][(closer = "awaiting" /\ closer' = "resolved")
       => (intervals' = {} /\ ~sweepScheduled')]_vars

\* C9: a getConnection call that finds no record invokes the connector at
\* once, whether or not another call is connecting the same id; every
\* successful invocation issues a handle of its own, so two calls that
\* both went through the connector never return the same handle.
C9_NoDeduplication ==
    /\ [](\A c, d \in Callers :
             (/\ c # d
              /\ calls[c].pc = "returned" /\ calls[c].invocations > 0
              /\ calls[d].pc = "returned" /\ calls[d].invocations > 0)
             => calls[c].result # calls[d].result)
    /\ [][\A c \in Callers :
             /\ (/\ calls[c].pc = "idle"
                 /\ calls'[c].pc # "idle"
                 /\ ~MapHas(connections, calls'[c].connectionId))
                => /\ calls'[c].pc = "connecting"
                   /\ calls'[c].attempt = 1
                   /\ calls'[c].invocations = 1
             /\ (calls[c].pc = "connecting" /\ calls'[c].pc = "returned")
                => /\ Len(issued') = Len(issued) + 1
                   /\ calls'[c].result = Len(issued')]_vars

\* two calls for one id went through the connector at the same time, each
\* succeeded on its first attempt and each returned a handle of its own
C9_Witness ==
    \E c, d \in Callers :
        /\ c # d
        /\ calls[c].connectionId = calls[d].connectionId
        /\ calls[c].pc = "returned" /\ calls[c].invocations = 1
        /\ calls[d].pc = "returned" /\ calls[d].invocations = 1
        /\ calls[c].result # calls[d].result
        /\ ops = 2

\* what the pool holds for an id
RecordOf(id) ==
    [connection |-> IF MapHas(connections, id) THEN {connections[id]}
                    ELSE {},
     config |-> IF MapHas(connectionConfigs, id)
                THEN {connectionConfigs[id]} ELSE {},
     retryCount |-> IF MapHas(retryAttempts, id) THEN {retryAttempts[id]}
                    ELSE {},
     healthCheck |-> IF MapHas(healthChecks, id) THEN {healthChecks[id]}
                     ELSE {},
     timers |-> {t \in intervals : TimerId(t) = id},
     closed |-> {h \in closed : TimerId(h) = id},
     failing |-> {h \in failing : TimerId(h) = id}]

\* the step belongs to a getConnection call, a removeConnection, or a
\* health-check callback of the id
StepOn(id) ==
    \/ \E c \in Callers :
           /\ calls'[c] # calls[c]
           /\ calls'[c].pc # "idle"
           /\ calls'[c].connectionId = id
    \/ RemoveConnection(id)
    \/ \E k \in checks : HealthCheckAnswer(k) /\ TimerId(k.timer) = id

\* C10: a step of a getConnection call, of removeConnection or of a
\* health-check callback of one id changes nothing the pool holds for
\* another id (handle, config, retry count, timer, state of its handles)
\* and no other getConnection call.
C10_DifferentIdsIndependent ==
    [][\A a \in ConnectionIds :
          StepOn(a)
          => /\ \A b \in ConnectionIds \ {a} : RecordOf(b)' = RecordOf(b)
             /\ \A c \in Callers :
                    calls[c].connectionId # a /\ calls[c].pc # "idle"
                    => calls'[c] = calls[c]]_vars

\* a call for A is between two failed attempts while B is stored
C10_Witness ==
    \E c \in Callers :
        /\ calls[c].connectionId = "A"
        /\ calls[c].pc = "sleeping"
        /\ MapHas(connections, "B")
        /\ retryAttempts["B"] = 0

\* ---------------------------------------------------------------- C20
\* C20: getConnectionStats() reports the number of stored records that are
\* currently healthy (those whose probe answers true at this moment), and
\* connected is true exactly when a record is stored.
C20_StatsCounts ==
    LET stats == getConnectionStats(Pool)
        HealthyRecords ==
            {id \in DOMAIN connections :
                /\ MapHas(connectionConfigs, id)
                /\ isConnectionHealthy(connections[id], connectionConfigs[id])}
    IN  /\ stats.connected <=> (DOMAIN connections # {})
        /\ stats.activeConnections = Cardinality(HealthyRecords)

\* ======================================================= the providers
\* ------------------------------------------------- JavaScript values
\* A string is a sequence of pieces of text; every character that
\* encodeURIComponent escapes stands as a piece of its own.
\* A value carries its type t and, by type, its number n, its text s, its
\* elements xs or its properties props.
Value(t, n, s, xs, props) ==
    [t |-> t, n |-> n, s |-> s, xs |-> xs, props |-> props]

Undefined == Value("undefined", 0, << >>, << >>, << >>)

Null == Value("null", 0, << >>, << >>, << >>)

Num(n) == Value("number", n, << >>, << >>, << >>)

Txt(s) == Value("string", 0, s, << >>, << >>)

Arr(xs) == Value("array", 0, << >>, xs, << >>)

\* an object is the sequence of its properties, in insertion order
Obj(props) == Value("object", 0, << >>, << >>, props)

Prop(k, x) == [key |-> k, value |-> x]

isArray(value) == value.t = "array"

\* the pieces of s at positions from..to that s has
Slice(s, from, to) ==
    LET first == IF from < 1 THEN 1 ELSE from
        last == IF to > Len(s) THEN Len(s) ELSE to
    IN  [i \in 1..(last - first + 1) |-> s[first + i - 1]]

\* Array.prototype.join
RECURSIVE Join(_, _)
Join(strings, separator) ==
    IF strings = << >> THEN << >>
    ELSE IF Len(strings) = 1 THEN strings[1]
    ELSE strings[1] \o separator \o Join(Tail(strings), separator)

\* the string a template literal puts in place of ${value}
RECURSIVE JSString(_)
JSString(value) ==
    CASE value.t = "string" -> value.s
      [] value.t = "number" -> <<ToString(value.n)>>
      [] value.t = "null" -> <<"null">>
      [] value.t = "undefined" -> <<"undefined">>
      [] value.t = "array" ->
            Join([i \in 1..Len(value.xs) |-> JSString(value.xs[i])], <<",">>)
      [] OTHER -> <<"[object Object]">>

\* an encoder that escapes nothing
encodeURIComponentVerbatim(s) == s

\* encodeURIComponent: letters, digits and - _ . ! ~ * ' ( ) are kept,
\* every other character is written as its escape
encodeURIComponent(s) ==
    LET EscapeOf(piece) ==
            CASE piece = " " -> "%20"
              [] piece = "," -> "%2C"
              [] piece = "\"" -> "%22"
              [] piece = "[" -> "%5B"
              [] piece = "]" -> "%5D"
              [] piece = "$" -> "%24"
              [] piece = "%" -> "%25"
              [] piece = "&" -> "%26"
              [] piece = "=" -> "%3D"
              [] piece = "?" -> "%3F"
              [] OTHER -> piece
    IN  [i \in 1..Len(s) |-> EscapeOf(s[i])]

\* ------------------------------------------------------- filter nodes
\* a leaf { field, operator, value }
Leaf(field, operator, value) ==
    [field |-> field, operator |-> operator, value |-> value,
     logicalOperator |-> "undefined", children |-> << >>]

\* the node ActiveRecord.where builds for a second condition
WhereComposite(logicalOperator, children) ==
    [field |-> Txt(<< >>), operator |-> "eq", value |-> Null,
     logicalOperator |-> logicalOperator, children |-> children]

\* a node { logicalOperator, children } with no field, operator or value
Composite(logicalOperator, children) ==
    [field |-> Undefined, operator |-> "undefined", value |-> Undefined,
     logicalOperator |-> logicalOperator, children |-> children]

\* ------------------------------------------------------------ queries
\* An optional property is a sequence of at most one element: << >> when
\* the property is absent, <<x>> when it holds x.  take and skip are 0 when
\* absent, which the code does not tell from the number 0.
Query(filter, select, orderBy, pagination) ==
    [filter |-> filter, select |-> select, orderBy |-> orderBy,
     pagination |-> pagination]

\* the entity every call names
Users == "users"

\* the query whose only content is the filter node
Only(filter) == Query(<<filter>>, << >>, << >>, << >>)

\* -------------------------------------------- relational translation
\* pushing the array itself instead of its elements
spreadOfValueUnspread(value) == <<value>>

\* ...(Array.isArray(value) ? value : [value]): the values pushed for in
\* and notin
spreadOfValue(value) == IF isArray(value) THEN value.xs ELSE <<value>>

\* SQLiteProvider.convertODataFilterToSQL: the WHERE text and the parameter
\* list after the pushes
convertODataFilterToSQL(filter, params) ==
    IF filter = << >> THEN [text |-> <<"1=1">>, params |-> params]
    ELSE
    LET field == JSString(filter[1].field)
        operator == filter[1].operator
        value == filter[1].value
        values == spreadOfValue(value)
        placeholders ==
            [i \in 1..(IF isArray(value) THEN Len(value.xs) ELSE 1) |-> <<"?">>]
        compare(sign) ==
            [text |-> field \o <<" ", sign, " ", "?">>,
             params |-> Append(params, value)]
        like(pattern) ==
            [text |-> field \o <<" ", "LIKE", " ", "?">>,
             params |-> Append(params, Txt(pattern))]
    IN  CASE operator = "eq" -> compare("=")
          [] operator = "ne" -> compare("!=")
          [] operator = "gt" -> compare(">")
          [] operator = "ge" -> compare(">=")
          [] operator = "lt" -> compare("<")
          [] operator = "le" -> compare("<=")
          [] operator = "contains" ->
                like(<<"%">> \o JSString(value) \o <<"%">>)
          [] operator = "startswith" -> like(JSString(value) \o <<"%">>)
          [] operator = "endswith" -> like(<<"%">> \o JSString(value))
          [] operator = "in" ->
                [text |-> field \o <<" ", "IN", " ", "(">>
                          \o Join(placeholders, <<", ">>) \o <<")">>,
                 params |-> params \o values]
          [] operator = "notin" ->
                [text |-> field \o <<" ", "NOT", " ", "IN", " ", "(">>
                          \o Join(placeholders, <<", ">>) \o <<")">>,
                 params |-> params \o values]
          [] OTHER -> compare("=")

\* the statement and the parameters SQLiteProvider.executeQuery prepares
selectStatement(entityName, query) ==
    LET \* string.replace(piece, by): the first occurrence only
        RECURSIVE ReplaceFirst(_, _, _)
        ReplaceFirst(s, piece, by) ==
            IF s = << >> THEN << >>
            ELSE IF Head(s) = piece THEN by \o Tail(s)
            ELSE <<Head(s)>> \o ReplaceFirst(Tail(s), piece, by)
        toUpperCase(direction) ==
            CASE direction = "asc" -> "ASC"
              [] direction = "desc" -> "DESC"
              [] OTHER -> direction
        where == convertODataFilterToSQL(query.filter, << >>)
        s1 == <<"SELECT", " ", "*", " ", "FROM", " ", entityName>>
        s2 == IF query.filter # << >>
              THEN s1 \o <<" ", "WHERE", " ">> \o where.text
              ELSE s1
        s3 == IF query.select # << >>
              THEN ReplaceFirst(s2, "*",
                       Join([i \in 1..Len(query.select[1].fields) |->
                                <<query.select[1].fields[i]>>], <<", ">>))
              ELSE s2
        s4 == IF query.orderBy # << >>
              THEN s3 \o <<" ", "ORDER", " ", "BY", " ">>
                   \o Join([i \in 1..Len(query.orderBy[1]) |->
                              <<query.orderBy[1][i].field, " ",
                                toUpperCase(query.orderBy[1][i].direction)>>],
                           <<", ">>)
              ELSE s3
        take == IF query.pagination = << >> THEN 0
                ELSE query.pagination[1].take
        skip == IF query.pagination = << >> THEN 0
                ELSE query.pagination[1].skip
        s5 == IF query.pagination # << >>
              THEN s4 \o <<" ", "LIMIT", " ",
                           ToString(IF take # 0 THEN take ELSE 50)>>
                   \o (IF skip # 0
                       THEN <<" ", "OFFSET", " ", ToString(skip)>>
                       ELSE << >>)
              ELSE s4
    IN  [sql |-> s5,
         params |-> IF query.filter # << >> THEN where.params ELSE << >>]

\* ---------------------------------------------- document translation
\* MongoDBProvider.convertODataFilterToMongo
convertODataFilterToMongo(filter) ==
    IF filter = << >> THEN Obj(<< >>)
    ELSE
    LET field == JSString(filter[1].field)
        operator == filter[1].operator
        value == filter[1].value
        values == IF isArray(value) THEN value.xs ELSE <<value>>
        with(key, x) == Obj(<<Prop(field, Obj(<<Prop(<<key>>, x)>>))>>)
        regex(pattern) ==
            Obj(<<Prop(field, Obj(<<Prop(<<"$regex">>, pattern),
                                    Prop(<<"$options">>, Txt(<<"i">>))>>))>>)
    IN  CASE operator = "eq" -> Obj(<<Prop(field, value)>>)
          [] operator = "ne" -> with("$ne", value)
          [] operator = "gt" -> with("$gt", value)
          [] operator = "ge" -> with("$gte", value)
          [] operator = "lt" -> with("$lt", value)
          [] operator = "le" -> with("$lte", value)
          [] operator = "contains" -> regex(value)
          [] operator = "startswith" ->
                regex(Txt(<<"^">> \o JSString(value)))
          [] operator = "endswith" ->
                regex(Txt(JSString(value) \o <<"$">>))
          [] operator = "in" -> with("$in", Arr(values))
          [] operator = "notin" -> with("$nin", Arr(values))
          [] OTHER -> Obj(<<Prop(field, value)>>)

\* ------------------------------------------------ remote translation
\* HTTPODataProvider.formatODataValue
formatODataValue(value) ==
    LET \* string.replace(/'/g, "''")
        RECURSIVE DoubleQuotes(_)
        DoubleQuotes(s) ==
            IF s = << >> THEN << >>
            ELSE (IF Head(s) = "'" THEN <<"'", "'">> ELSE <<Head(s)>>)
                 \o DoubleQuotes(Tail(s))
        \* JSON.stringify of a number, a string or an array of them
        RECURSIVE JSONstringify(_)
        JSONstringify(x) ==
            CASE x.t = "string" -> <<"\"">> \o x.s \o <<"\"">>
              [] x.t = "number" -> <<ToString(x.n)>>
              [] x.t = "array" ->
                    <<"[">>
                    \o Join([i \in 1..Len(x.xs) |-> JSONstringify(x.xs[i])],
                            <<",">>)
                    \o <<"]">>
              [] OTHER -> <<"null">>
    IN  CASE value.t \in {"null", "undefined"} -> <<"null">>
          [] value.t = "string" ->
                <<"'">> \o DoubleQuotes(value.s) \o <<"'">>
          [] value.t = "number" -> <<ToString(value.n)>>
          [] OTHER ->
                <<"'">> \o DoubleQuotes(JSONstringify(value)) \o <<"'">>

\* HTTPODataProvider.convertFilterToOData
convertFilterToOData(filter) ==
    IF filter = << >> THEN << >>
    ELSE
    LET field == JSString(filter[1].field)
        operator == filter[1].operator
        value == filter[1].value
        values == IF isArray(value) THEN value.xs ELSE <<value>>
        formattedValues == [i \in 1..Len(values) |->
                               formatODataValue(values[i])]
        compare(keyword) ==
            field \o <<" ", keyword, " ">> \o formatODataValue(value)
        call(name) ==
            <<name, "(">> \o field \o <<",", " ">>
            \o formatODataValue(value) \o <<")">>
    IN  CASE operator = "eq" -> compare("eq")
          [] operator = "ne" -> compare("ne")
          [] operator = "gt" -> compare("gt")
          [] operator = "ge" -> compare("ge")
          [] operator = "lt" -> compare("lt")
          [] operator = "le" -> compare("le")
          [] operator = "contains" -> call("contains")
          [] operator = "startswith" -> call("startswith")
          [] operator = "endswith" -> call("endswith")
          [] operator = "in" ->
                field \o <<" ", "in", " ", "(">>
                \o Join(formattedValues, <<",">>) \o <<")">>
          [] OTHER -> compare("eq")

\* HTTPODataProvider.buildODataQueryString
buildODataQueryString(query) ==
    LET filterString == convertFilterToOData(query.filter)
        p1 == IF query.filter # << >> /\ filterString # << >>
              THEN << <<"$filter=">> \o encodeURIComponent(filterString) >>
              ELSE << >>
        p2 == IF query.select # << >>
              THEN << <<"$select=">>
                      \o encodeURIComponent(
                           Join([i \in 1..Len(query.select[1].fields) |->
                                   <<query.select[1].fields[i]>>],
                                <<",">>)) >>
              ELSE << >>
        p3 == IF query.orderBy # << >>
              THEN << <<"$orderby=">>
                      \o encodeURIComponent(
                           Join([i \in 1..Len(query.orderBy[1]) |->
                                   <<query.orderBy[1][i].field, " ",
                                     query.orderBy[1][i].direction>>],
                                <<",">>)) >>
              ELSE << >>
        take == IF query.pagination = << >> THEN 0
                ELSE query.pagination[1].take
        skip == IF query.pagination = << >> THEN 0
                ELSE query.pagination[1].skip
        p4 == IF take # 0 THEN << <<"$top=", ToString(take)>> >> ELSE << >>
        p5 == IF skip # 0 THEN << <<"$skip=", ToString(skip)>> >> ELSE << >>
        params == p1 \o p2 \o p3 \o p4 \o p5 \o << <<"$count=true">> >>
    IN  <<"?">> \o Join(params, <<"&">>)

\* ------------------------------------------------- bounded query inputs
\* longest array given to in / notin
MaxLen == 3

\* the operators of the Query model
Operators == {"eq", "ne", "lt", "le", "gt", "ge", "in", "notin",
              "contains", "startswith", "endswith"}

\* an operator outside the Query model
UnknownOperators == {"like"}

Numbers == {Num(18), Num(30)}

\* leaves on two fields, with every operator, a number, a string (one
\* holding ' and ?) or an array of numbers as value
LeafFilters ==
    {Leaf(field, operator, value) :
        field \in {Txt(<<"age">>), Txt(<<"name">>)},
        operator \in Operators \cup UnknownOperators,
        value \in Numbers
                  \cup {Txt(<<"A", "l">>), Txt(<<"O", "'", "R", "?">>)}
                  \cup {Arr(xs) :
                          xs \in UNION {[1..n -> Numbers] : n \in 0..MaxLen}}}

\* composites of two leaves, as ActiveRecord.where builds them and without
\* field, operator and value
CompositeFilters ==
    LET ChildLeaves == {Leaf(Txt(<<"age">>), "gt", Num(18)),
                        Leaf(Txt(<<"age">>), "lt", Num(30)),
                        Leaf(Txt(<<"name">>), "eq", Txt(<<"A", "l">>))}
    IN  {WhereComposite(l, <<a, b>>) :
            l \in {"and", "or"}, a \in ChildLeaves, b \in ChildLeaves}
        \cup {Composite(l, <<a, b>>) :
            l \in {"and", "or"}, a \in ChildLeaves, b \in ChildLeaves}

\* queries with and without a filter, a selection, an order and a page
ShapedQueries ==
    {Query(f, s, o, p) :
        f \in {<< >>, <<Leaf(Txt(<<"age">>), "gt", Num(18))>>},
        s \in {<< >>, <<[fields |-> <<"name">>]>>,
               <<[fields |-> <<"name", "age">>]>>},
        o \in {<< >>, << <<[field |-> "age", direction |-> "desc"]>> >>},
        p \in {<< >>, <<[take |-> 0, skip |-> 1]>>,
               <<[take |-> 2, skip |-> 0]>>, <<[take |-> 1, skip |-> 1]>>}}

\* the queries given to the translators
TranslatedQueries ==
    {Only(f) : f \in LeafFilters \cup CompositeFilters} \cup ShapedQueries

\* ----------------------------------------- the translators on their own
TranslatorInit ==
    /\ PoolInit
    /\ currentQuery \in TranslatedQueries
    /\ store = << >>
    /\ reachable = TRUE
    /\ native = NoNative
    /\ response = NoResponse
    /\ recordErrors = << >>
    /\ sessions = NoSessions

\* the relational provider translates the query in hand
TranslateSQL ==
    /\ native.sql = << >>
    /\ LET statement == selectStatement(Users, currentQuery)
           where == convertODataFilterToSQL(currentQuery.filter, << >>)
       IN  native' = [native EXCEPT !.sql = <<statement.sql>>,
                                    !.where = <<where.text>>,
                                    !.params = <<statement.params>>]
    /\ UNCHANGED <<poolState, recordErrors, sessions,
                   currentQuery, store, reachable, response>>

\* the document provider translates the query in hand
TranslateMongo ==
    /\ native.mongo = << >>
    /\ native' = [native EXCEPT
                     !.mongo = <<convertODataFilterToMongo(currentQuery.filter)>>]
    /\ UNCHANGED <<poolState, recordErrors, sessions,
                   currentQuery, store, reachable, response>>

\* the remote provider translates the query in hand
TranslateOData ==
    /\ native.odata = << >>
    /\ native' = [native EXCEPT
                     !.odata = <<buildODataQueryString(currentQuery)>>,
                     !.filterString = <<convertFilterToOData(currentQuery.filter)>>]
    /\ UNCHANGED <<poolState, recordErrors, sessions,
                   currentQuery, store, reachable, response>>

TranslatorNext == TranslateSQL \/ TranslateMongo \/ TranslateOData

TranslatorSpec == TranslatorInit /\ [][TranslatorNext]_vars

\* ================================================ translator properties
\* the text a sequence of pieces spells
RECURSIVE Text(_)
Text(s) == IF s = << >> THEN "" ELSE Head(s) \o Text(Tail(s))

\* all three translators have translated the query in hand
Translated ==
    /\ native.sql # << >>
    /\ native.mongo # << >>
    /\ native.odata # << >>

\* ---------------------------------------------------------------- C11
\* the Query whose only content is {field:'age', operator:'gt', value:18}
AgeGt18 == Only(Leaf(Txt(<<"age">>), "gt", Num(18)))

\* what the relational and the document translator give for AgeGt18
C11_RelationalAndDocument ==
    /\ native.sql # << >> =>
          /\ Text(native.where[1]) = "age > ?"
          /\ native.params[1] = <<Num(18)>>
    /\ native.mongo # << >> =>
          native.mongo[1] =
              Obj(<<Prop(<<"age">>, Obj(<<Prop(<<"$gt">>, Num(18))>>))>>)

\* C11 as stated: for the Query AgeGt18 the relational translation is the
\* WHERE text "age > ?" with parameters [18], the document translation is
\* {age: {$gt: 18}} and the remote translation is the query string
\* $filter=age%20gt%2018.
C11_AsStated ==
    currentQuery = AgeGt18 =>
        /\ C11_RelationalAndDocument
        /\ native.odata # << >> =>
              Text(native.odata[1]) = "$filter=age%20gt%2018"

\* C11 amended: as above, but the remote query string is
\* ?$filter=age%20gt%2018&$count=true, whose $filter parameter encodes the
\* expression "age gt 18".
C11_ConcreteScenario ==
    currentQuery = AgeGt18 =>
        /\ C11_RelationalAndDocument
        /\ native.odata # << >> =>
              /\ Text(native.odata[1]) = "?$filter=age%20gt%2018&$count=true"
              /\ Text(native.filterString[1]) = "age gt 18"

\* AgeGt18 has been translated by all three translators
C11_Witness == currentQuery = AgeGt18 /\ Translated

\* ---------------------------------------------------------------- C14
\* the filter of the query in hand, when it is a leaf with an operator of
\* the Query model
SupportedLeaf ==
    /\ currentQuery.filter # << >>
    /\ currentQuery.filter[1].children = << >>
    /\ currentQuery.filter[1].operator \in Operators

\* the pieces of s that are not in the set skipped
RECURSIVE Without(_, _)
Without(s, skipped) ==
    IF s = << >> THEN << >>
    ELSE (IF Head(s) \in skipped THEN << >> ELSE <<Head(s)>>)
         \o Without(Tail(s), skipped)

\* C14: each of the eleven operators is translated by each of the three
\* translators to that backend's own construct for the operator; no
\* supported operator is translated as a different operator (for notin on
\* the remote backend: not as the construct of any other operator).
\* The construct of a WHERE text is what stands between the field and the
\* placeholders; of a document filter the first key of the operator object,
\* or equality when the value is given directly; of an OData expression the
\* function called, or the keyword after the field.
C14_OperatorMapping ==
    SupportedLeaf =>
        LET field == JSString(currentQuery.filter[1].field)
            operator == currentQuery.filter[1].operator
            SQLConstructOf(where) ==
                Text(Without(Slice(where, Len(field) + 1, Len(where)),
                             {" ", "?", "(", ")", ", "}))
            MongoConstructOf(mongoQuery) ==
                LET x == mongoQuery.props[1].value
                IN  IF x.t = "object" THEN Text(x.props[1].key)
                    ELSE "equality"
            ODataConstructOf(filterString) ==
                IF Len(filterString) >= 2 /\ filterString[2] = "("
                THEN filterString[1] \o "()"
                ELSE filterString[Len(field) + 2]
            ConstructFor(backend, o) ==
                CASE backend = "document" ->
                        (CASE o = "eq" -> "equality"
                           [] o = "ne" -> "$ne"
                           [] o = "lt" -> "$lt"
                           [] o = "le" -> "$lte"
                           [] o = "gt" -> "$gt"
                           [] o = "ge" -> "$gte"
                           [] o = "in" -> "$in"
                           [] o = "notin" -> "$nin"
                           [] OTHER -> "$regex")
                  [] backend = "relational" ->
                        (CASE o = "eq" -> "="
                           [] o = "ne" -> "!="
                           [] o = "lt" -> "<"
                           [] o = "le" -> "<="
                           [] o = "gt" -> ">"
                           [] o = "ge" -> ">="
                           [] o = "in" -> "IN"
                           [] o = "notin" -> "NOTIN"
                           [] OTHER -> "LIKE")
                  [] OTHER ->
                        (CASE o \in {"contains", "startswith", "endswith"} ->
                                o \o "()"
                           [] OTHER -> o)
        IN  /\ native.sql # << >> =>
                  SQLConstructOf(native.where[1])
                      = ConstructFor("relational", operator)
            /\ native.mongo # << >> =>
                  MongoConstructOf(native.mongo[1])
                      = ConstructFor("document", operator)
            /\ native.odata # << >> =>
                  IF operator = "notin"
                  THEN ODataConstructOf(native.filterString[1])
                          \notin {ConstructFor("remote", o) :
                                     o \in Operators \ {"notin"}}
                  ELSE ODataConstructOf(native.filterString[1])
                          = ConstructFor("remote", operator)

\* ---------------------------------------------------------------- C15
\* how many times piece occurs in s
RECURSIVE CountOf(_, _)
CountOf(s, piece) ==
    IF s = << >> THEN 0
    ELSE (IF Head(s) = piece THEN 1 ELSE 0) + CountOf(Tail(s), piece)

\* C15: in the relational translation of a leaf with a supported operator
\* the WHERE text is the field followed by SQL words only (no value is
\* written into it), the parameters are the values of the leaf in order,
\* and there are as many ? placeholders as parameters.
C15_ParameterBinding ==
    (SupportedLeaf /\ native.sql # << >>) =>
        LET leaf == currentQuery.filter[1]
            field == JSString(leaf.field)
            where == native.where[1]
            SQLWords == {" ", "=", "!=", "<", "<=", ">", ">=", "LIKE", "IN",
                         "NOT", "(", ")", ", ", "?"}
            BoundValues ==
                CASE leaf.operator \in {"in", "notin"} ->
                        IF isArray(leaf.value) THEN leaf.value.xs
                        ELSE <<leaf.value>>
                  [] leaf.operator = "contains" ->
                        <<Txt(<<"%">> \o JSString(leaf.value) \o <<"%">>)>>
                  [] leaf.operator = "startswith" ->
                        <<Txt(JSString(leaf.value) \o <<"%">>)>>
                  [] leaf.operator = "endswith" ->
                        <<Txt(<<"%">> \o JSString(leaf.value))>>
                  [] OTHER -> <<leaf.value>>
        IN  /\ Slice(where, 1, Len(field)) = field
            /\ \A i \in (Len(field) + 1)..Len(where) : where[i] \in SQLWords
            /\ native.params[1] = BoundValues
            /\ CountOf(where, "?") = Len(native.params[1])

\* an in or notin leaf with an array of two or more values has been
\* translated to SQL
C15_Witness ==
    /\ SupportedLeaf
    /\ native.sql # << >>
    /\ currentQuery.filter[1].operator \in {"in", "notin"}
    /\ isArray(currentQuery.filter[1].value)
    /\ Len(currentQuery.filter[1].value.xs) >= 2
    /\ CountOf(native.where[1], "?") = Len(currentQuery.filter[1].value.xs)

\* ====================================================== the backends
\* What the three backends answer to the native forms they are sent.  The
\* providers only hand the forms over: prepare / all of better-sqlite3,
\* find / countDocuments of the MongoDB driver, GET on the OData service.
\* ------------------------------------------------------------ records
\* the default page size of the relational and the document provider
DefaultLimit == 50

\* a stored record { id, age, name }
Row(id, age, name) ==
    Obj(<<Prop(<<"id">>, Num(id)), Prop(<<"age">>, Num(age)),
          Prop(<<"name">>, Txt(name))>>)

\* the dataset every backend holds at the start
Dataset ==
    <<Row(1, 18, <<"A", "l">>), Row(2, 25, <<"B", "o">>),
      Row(3, 30, <<"A", "l">>)>>

Columns == {"id", "age", "name"}

\* the value of a property of an object, undefined when it has none
GetProp(object, key) ==
    IF \E i \in 1..Len(object.props) : Text(object.props[i].key) = key
    THEN object.props[CHOOSE i \in 1..Len(object.props) :
                          Text(object.props[i].key) = key].value
    ELSE Undefined

\* the object with the properties named in keys only
Project(object, keys) ==
    LET Kept(prop) == Text(prop.key) \in keys
    IN  Obj(SelectSeq(object.props, Kept))

\* rows sorted by a numeric property, stably
RECURSIVE SortRows(_, _, _)
SortRows(rows, key, descending) ==
    LET RECURSIVE InsertSorted(_, _)
        InsertSorted(row, sorted) ==
            IF sorted = << >> THEN <<row>>
            ELSE LET a == GetProp(row, key).n
                     b == GetProp(Head(sorted), key).n
                 IN  IF (IF descending THEN a > b ELSE a < b)
                     THEN <<row>> \o sorted
                     ELSE <<Head(sorted)>> \o InsertSorted(row, Tail(sorted))
    IN  IF rows = << >> THEN << >>
        ELSE InsertSorted(rows[Len(rows)],
                          SortRows(Slice(rows, 1, Len(rows) - 1), key,
                                   descending))

\* rows after skipping skip of them and keeping at most limit
Page(rows, skip, limit) == Slice(rows, skip + 1, skip + limit)

\* the position of the first occurrence of piece in s, 0 when there is none
IndexOf(s, piece) ==
    IF \E i \in 1..Len(s) : s[i] = piece
    THEN CHOOSE i \in 1..Len(s) :
            s[i] = piece /\ \A j \in 1..(i - 1) : s[j] # piece
    ELSE 0

\* the number a numeral spells
NumberOf(piece) == CHOOSE n \in 0..DefaultLimit : ToString(n) = piece

\* the order of numbers; a number and a text are ordered only where the
\* backend orders values of different types (SQLite: numbers first)
Less(a, b, numberBeforeText) ==
    CASE a.t = "number" /\ b.t = "number" -> a.n < b.n
      [] a.t = "number" /\ b.t = "string" -> numberBeforeText
      [] OTHER -> FALSE

\* --------------------------------------------------------------- SQLite
\* database.prepare(sql).all(...params) on a table holding rows: the rows
\* selected, or an error for a statement SQLite does not accept, a wrong
\* number of parameters or a parameter that cannot be bound.  The WHERE
\* clauses read here are column sign ? and column [NOT] IN (?, ...).
sqliteAll(rows, sql, params) ==
    LET iFrom == IndexOf(sql, "FROM")
        iWhere == IndexOf(sql, "WHERE")
        iOrder == IndexOf(sql, "ORDER")
        iLimit == IndexOf(sql, "LIMIT")
        iOffset == IndexOf(sql, "OFFSET")
        endOfWhere == IF iOrder # 0 THEN iOrder - 2
                      ELSE IF iLimit # 0 THEN iLimit - 2 ELSE Len(sql)
        RECURSIVE PlaceholderList(_)
        PlaceholderList(n) ==
            IF n = 0 THEN << >>
            ELSE IF n = 1 THEN <<"?">>
            ELSE <<"?", ", ">> \o PlaceholderList(n - 1)
        \* the page of the matching rows: sorted, cut and projected
        Deliver(matching, columns) ==
            LET sorted == IF iOrder = 0 THEN matching
                          ELSE SortRows(matching, sql[iOrder + 4],
                                        sql[iOrder + 6] = "DESC")
                paged == IF iLimit = 0 THEN sorted
                         ELSE Page(sorted,
                                   IF iOffset = 0 THEN 0
                                   ELSE NumberOf(sql[iOffset + 2]),
                                   NumberOf(sql[iLimit + 2]))
            IN  IF columns = <<"*">> THEN paged
                ELSE [i \in 1..Len(paged) |->
                         Project(paged[i],
                                 {columns[j] : j \in 1..Len(columns)})]
        \* the rows the WHERE clause read as kind holds for
        Filtered(where, kind) ==
            LET Compare(row, sign, parameter) ==
                    LET x == GetProp(row, where[1])
                    IN  /\ x.t \notin {"null", "undefined"}
                        /\ parameter.t # "null"
                        /\ CASE sign = "=" -> x = parameter
                             [] sign = "!=" -> x # parameter
                             [] sign = "<" -> Less(x, parameter, TRUE)
                             [] sign = "<=" ->
                                   Less(x, parameter, TRUE) \/ x = parameter
                             [] sign = ">" -> Less(parameter, x, TRUE)
                             [] sign = ">=" ->
                                   Less(parameter, x, TRUE) \/ x = parameter
                             [] OTHER -> FALSE
                Matches(row) ==
                    \/ iWhere = 0
                    \/ kind = "compare" /\ Compare(row, where[3], params[1])
                    \/ kind = "in" /\
                       \E i \in 1..Len(params) : Compare(row, "=", params[i])
                    \/ kind = "notin" /\
                       \A i \in 1..Len(params) : Compare(row, "!=", params[i])
            IN  SelectSeq(rows, Matches)
        \* the answer to a statement with the WHERE clause read as kind
        Evaluate(where, kind, columns) ==
            LET accepted ==
                    /\ \/ columns = <<"*">>
                       \/ columns # << >> /\
                          \A i \in 1..Len(columns) : columns[i] \in Columns
                    /\ iWhere # 0 => kind # "error"
                    /\ iOrder # 0 => sql[iOrder + 4] \in Columns
                    /\ CountOf(sql, "?") = Len(params)
                    /\ \A i \in 1..Len(params) :
                          params[i].t \in {"number", "string", "null"}
            IN  IF accepted
                THEN [ok |-> TRUE,
                      rows |-> Deliver(Filtered(where, kind), columns)]
                ELSE [ok |-> FALSE, rows |-> << >>]
        \* the answer to a statement with this WHERE clause and column list
        Respond(where, columns) ==
            LET kind ==
                    IF Len(where) = 5 /\ where[1] \in Columns
                       /\ where[2] = " "
                       /\ where[3] \in {"=", "!=", "<", "<=", ">", ">="}
                       /\ where[4] = " " /\ where[5] = "?"
                    THEN "compare"
                    ELSE IF Len(where) >= 6 /\ where[1] \in Columns
                            /\ Slice(where, 2, 5) = <<" ", "IN", " ", "(">>
                            /\ where[Len(where)] = ")"
                            /\ Slice(where, 6, Len(where) - 1)
                                  = PlaceholderList(CountOf(where, "?"))
                    THEN "in"
                    ELSE IF Len(where) >= 8 /\ where[1] \in Columns
                            /\ Slice(where, 2, 7)
                                  = <<" ", "NOT", " ", "IN", " ", "(">>
                            /\ where[Len(where)] = ")"
                            /\ Slice(where, 8, Len(where) - 1)
                                  = PlaceholderList(CountOf(where, "?"))
                    THEN "notin"
                    ELSE "error"
            IN  Evaluate(where, kind, columns)
    IN  Respond(IF iWhere = 0 THEN << >>
                ELSE Slice(sql, iWhere + 2, endOfWhere),
                Without(Slice(sql, 3, iFrom - 2), {", "}))

\* -------------------------------------------------------------- MongoDB
\* does the document satisfy the filter: every property { key: condition }
\* holds, where a plain value asks for equality (null and undefined for a
\* null or missing field) and an object for its operator
MongoMatches(doc, mongoQuery) ==
    LET Equals(x, asked) ==
            IF asked.t \in {"null", "undefined"}
            THEN x.t \in {"null", "undefined"}
            ELSE x = asked
        PropMatches(key, condition) ==
            LET x == GetProp(doc, Text(key))
            IN  IF condition.t # "object" \/ condition.props = << >>
                THEN Equals(x, condition)
                ELSE
                LET operator == Text(condition.props[1].key)
                    asked == condition.props[1].value
                IN  CASE operator = "$ne" -> ~Equals(x, asked)
                      [] operator = "$gt" -> Less(asked, x, FALSE)
                      [] operator = "$gte" ->
                            Less(asked, x, FALSE) \/ x = asked
                      [] operator = "$lt" -> Less(x, asked, FALSE)
                      [] operator = "$lte" ->
                            Less(x, asked, FALSE) \/ x = asked
                      [] operator = "$in" ->
                            \E i \in 1..Len(asked.xs) : Equals(x, asked.xs[i])
                      [] operator = "$nin" ->
                            \A i \in 1..Len(asked.xs) :
                                ~Equals(x, asked.xs[i])
                      [] OTHER -> FALSE
    IN  \A i \in 1..Len(mongoQuery.props) :
            PropMatches(mongoQuery.props[i].key, mongoQuery.props[i].value)

\* collection.countDocuments(mongoQuery)
countDocuments(docs, mongoQuery) ==
    LET Matches(doc) == MongoMatches(doc, mongoQuery)
    IN  Len(SelectSeq(docs, Matches))

\* collection.find(mongoQuery, { projection }).sort(sort).skip(skip)
\* .limit(limit).toArray(); the id of a record stands for its _id
mongoFind(docs, mongoQuery, projection, sort, skip, limit) ==
    LET Matches(doc) == MongoMatches(doc, mongoQuery)
        matching == SelectSeq(docs, Matches)
        sorted == IF sort.props = << >> THEN matching
                  ELSE SortRows(matching, Text(sort.props[1].key),
                                sort.props[1].value.n < 0)
        skipped == IF skip > 0 THEN Page(sorted, skip, Len(sorted))
                   ELSE sorted
        limited == IF limit > 0 THEN Page(skipped, 0, limit) ELSE skipped
        included == {Text(projection.props[i].key) :
                        i \in {j \in 1..Len(projection.props) :
                                  projection.props[j].value.n = 1}}
                    \cup (IF \E j \in 1..Len(projection.props) :
                                /\ Text(projection.props[j].key) = "_id"
                                /\ projection.props[j].value.n = 0
                          THEN {} ELSE {"id"})
    IN  IF projection.props = << >> THEN limited
        ELSE [i \in 1..Len(limited) |-> Project(limited[i], included)]

\* -------------------------------------------------------- OData service
\* GET entity?queryString on a service holding rows.  The service decodes
\* the query options, reads $filter as property keyword literal or as
\* property in (literal,...), and answers the page and the count of all
\* matching rows.  A service that is not lenient rejects an expression it
\* cannot read and a comparison of a property with a literal of another
\* type; a lenient one matches no row.
odataGet(rows, queryString, lenient) ==
    LET UnescapeOf(piece) ==
            CASE piece = "%20" -> " "
              [] piece = "%2C" -> ","
              [] piece = "%22" -> "\""
              [] piece = "%5B" -> "["
              [] piece = "%5D" -> "]"
              [] piece = "%24" -> "$"
              [] piece = "%25" -> "%"
              [] piece = "%26" -> "&"
              [] piece = "%3D" -> "="
              [] piece = "%3F" -> "?"
              [] OTHER -> piece
        RECURSIVE Split(_, _)
        Split(s, separator) ==
            LET i == IndexOf(s, separator)
            IN  IF i = 0 THEN <<s>>
                ELSE <<Slice(s, 1, i - 1)>>
                     \o Split(Slice(s, i + 1, Len(s)), separator)
        options == Split(Tail(queryString), "&")
        Option(name) ==
            IF \E i \in 1..Len(options) :
                  options[i] # << >> /\ options[i][1] = name
            THEN LET o == Tail(options[CHOOSE i \in 1..Len(options) :
                              options[i] # << >> /\ options[i][1] = name])
                 IN  [i \in 1..Len(o) |-> UnescapeOf(o[i])]
            ELSE << >>
        RECURSIVE SingleQuotes(_)
        SingleQuotes(s) ==
            IF s = << >> THEN << >>
            ELSE IF Len(s) >= 2 /\ s[1] = "'" /\ s[2] = "'"
            THEN <<"'">> \o SingleQuotes(Slice(s, 3, Len(s)))
            ELSE <<Head(s)>> \o SingleQuotes(Tail(s))
        IsLiteral(s) ==
            \/ /\ Len(s) = 1
               /\ \/ s[1] = "null"
                  \/ \E n \in 0..DefaultLimit : ToString(n) = s[1]
            \/ Len(s) >= 2 /\ s[1] = "'" /\ s[Len(s)] = "'"
        LiteralValue(s) ==
            IF s[1] = "'" THEN Txt(SingleQuotes(Slice(s, 2, Len(s) - 1)))
            ELSE IF s[1] = "null" THEN Null
            ELSE Num(NumberOf(s[1]))
        \* the page of the matching rows: sorted, cut and projected
        Deliver(matching, select, orderby, top, skip) ==
            LET sorted == IF orderby = << >> THEN matching
                          ELSE SortRows(matching, orderby[1],
                                        Len(orderby) >= 3
                                            /\ orderby[3] = "desc")
                paged == Page(sorted,
                              IF skip = << >> THEN 0 ELSE NumberOf(skip[1]),
                              IF top = << >> THEN Len(matching)
                              ELSE NumberOf(top[1]))
                names == Split(select, ",")
            IN  IF select = << >> THEN paged
                ELSE [i \in 1..Len(paged) |->
                         Project(paged[i],
                                 {names[j][1] : j \in 1..Len(names)})]
        \* the rows the expression read as kind and literals holds for
        Filtered(property, keyword, kind, literals) ==
            LET Compare(row, k, literal) ==
                    LET x == GetProp(row, property)
                    IN  CASE k = "eq" -> x = literal
                          [] k = "ne" -> x # literal
                          [] k = "lt" -> Less(x, literal, FALSE)
                          [] k = "le" -> Less(x, literal, FALSE) \/ x = literal
                          [] k = "gt" -> Less(literal, x, FALSE)
                          [] k = "ge" -> Less(literal, x, FALSE) \/ x = literal
                          [] OTHER -> FALSE
                Matches(row) ==
                    \/ kind = "none"
                    \/ kind = "compare" /\ Compare(row, keyword, literals[1])
                    \/ kind = "in" /\
                       \E i \in 1..Len(literals) :
                           Compare(row, "eq", literals[i])
            IN  SelectSeq(rows, Matches)
        \* the answer to an expression read as kind and literals
        Evaluate(filter, kind, literals, select, orderby, top, skip) ==
            LET typed == \A i \in 1..Len(literals) :
                            \A r \in 1..Len(rows) :
                                literals[i].t
                                    \in {"null", GetProp(rows[r], filter[1]).t}
                accepted ==
                    /\ kind # "error" \/ lenient
                    /\ (kind \in {"compare", "in"} /\ ~typed) => lenient
                    /\ orderby # << >> => orderby[1] \in Columns
                matching == IF kind = "none"
                            THEN Filtered("", "", kind, literals)
                            ELSE Filtered(filter[1], filter[3], kind, literals)
            IN  IF accepted
                THEN [ok |-> TRUE,
                      value |-> Deliver(matching, select, orderby, top, skip),
                      count |-> Len(matching)]
                ELSE [ok |-> FALSE, value |-> << >>, count |-> 0]
        \* the answer to the decoded query options
        Respond(filter, select, orderby, top, skip) ==
            LET listed == Split(Slice(filter, 6, Len(filter) - 1), ",")
                kind ==
                    IF filter = << >> THEN "none"
                    ELSE IF Len(filter) >= 5 /\ filter[1] \in Columns
                            /\ filter[2] = " "
                            /\ filter[3] \in {"eq", "ne", "lt", "le", "gt", "ge"}
                            /\ filter[4] = " "
                            /\ IsLiteral(Slice(filter, 5, Len(filter)))
                    THEN "compare"
                    ELSE IF Len(filter) >= 6 /\ filter[1] \in Columns
                            /\ Slice(filter, 2, 5) = <<" ", "in", " ", "(">>
                            /\ filter[Len(filter)] = ")"
                            /\ \A i \in 1..Len(listed) :
                                  listed[i] # << >> /\ IsLiteral(listed[i])
                    THEN "in"
                    ELSE "error"
                literals ==
                    CASE kind = "compare" ->
                            <<LiteralValue(Slice(filter, 5, Len(filter)))>>
                      [] kind = "in" ->
                            [i \in 1..Len(listed) |-> LiteralValue(listed[i])]
                      [] OTHER -> << >>
            IN  Evaluate(filter, kind, literals, select, orderby, top, skip)
    IN  Respond(Option("$filter="), Option("$select="), Option("$orderby="),
                Option("$top="), Option("$skip="))

\* ================================================ the provider methods
Providers == {"sqlite", "mongodb", "http-odata"}

\* what a method returns from its try block
Succeeded(provider, method, data, count, affectedCount) ==
    [provider |-> provider, method |-> method, success |-> TRUE,
     data |-> data, count |-> count, affectedCount |-> affectedCount,
     errors |-> << >>]

\* what a method returns from its catch block: one error with the
\* properties code, message, details, severity and actionable
Failed(provider, method, code) ==
    [provider |-> provider, method |-> method, success |-> FALSE,
     data |-> << >>, count |-> 0, affectedCount |-> 0,
     errors |-> <<[code |-> code,
                   properties |-> {"code", "message", "details",
                                   "severity", "actionable"}]>>]

\* SQLiteProvider.executeQuery on a table holding rows; up tells whether
\* the database answers
SQLiteExecuteQuery(rows, query, up) ==
    LET statement == selectStatement(Users, query)
        answer == sqliteAll(rows, statement.sql, statement.params)
        count == Len(rows)
    IN  IF up /\ answer.ok
        THEN Succeeded("sqlite", "executeQuery", answer.rows, count, 0)
        ELSE Failed("sqlite", "executeQuery", "QUERY_EXECUTION_FAILED")

\* the skip and the limit MongoDBProvider.executeQuery gives the cursor:
\* query.pagination?.skip || 0 and query.pagination?.take || 50
cursorWindow(query) ==
    LET take == IF query.pagination = << >> THEN 0
                ELSE query.pagination[1].take
        skip == IF query.pagination = << >> THEN 0
                ELSE query.pagination[1].skip
    IN  [skip |-> skip, limit |-> IF take # 0 THEN take ELSE DefaultLimit]

\* MongoDBProvider.executeQuery on a collection holding docs
MongoExecuteQuery(docs, query, up) ==
    LET mongoQuery == convertODataFilterToMongo(query.filter)
        projection ==
            IF query.select # << >>
            THEN Obj([i \in 1..Len(query.select[1].fields) |->
                         Prop(<<query.select[1].fields[i]>>, Num(1))]
                     \o <<Prop(<<"_id">>, Num(0))>>)
            ELSE Obj(<< >>)
        sort ==
            IF query.orderBy # << >>
            THEN Obj([i \in 1..Len(query.orderBy[1]) |->
                         Prop(<<query.orderBy[1][i].field>>,
                              IF query.orderBy[1][i].direction = "asc"
                              THEN Num(1) ELSE Num(0 - 1))])
            ELSE Obj(<< >>)
        window == cursorWindow(query)
        data == mongoFind(docs, mongoQuery, projection, sort, window.skip,
                          window.limit)
        count == countDocuments(docs, mongoQuery)
    IN  IF up
        THEN Succeeded("mongodb", "executeQuery", data, count, 0)
        ELSE Failed("mongodb", "executeQuery", "QUERY_EXECUTION_FAILED")

\* HTTPODataProvider.executeQuery against a service holding rows
HTTPExecuteQuery(rows, query, up, lenient) ==
    LET queryParams == buildODataQueryString(query)
        answer == odataGet(rows, queryParams, lenient)
    IN  IF up /\ answer.ok
        THEN Succeeded("http-odata", "executeQuery", answer.value,
                       answer.count, 0)
        ELSE Failed("http-odata", "executeQuery", "QUERY_EXECUTION_FAILED")

executeQuery(provider, rows, query, up, lenient) ==
    CASE provider = "sqlite" -> SQLiteExecuteQuery(rows, query, up)
      [] provider = "mongodb" -> MongoExecuteQuery(rows, query, up)
      [] OTHER -> HTTPExecuteQuery(rows, query, up, lenient)

\* ------------------------------------------------------ update, delete
\* the ids given to update and delete: a stored one and one never stored
Ids == {1, 9}

\* the value update writes to the age of the record
NewAge == 21

\* the results findOneAndUpdate resolves to, by driver: an object
\* { value, ok, lastErrorObject }, or the document itself (null when no
\* document matches)
FindOneAndUpdateResults == {"ModifyResult", "Document"}

\* the object with the property key set to x
SetProp(object, key, x) ==
    IF \E i \in 1..Len(object.props) : Text(object.props[i].key) = key
    THEN Obj([i \in 1..Len(object.props) |->
                 IF Text(object.props[i].key) = key
                 THEN Prop(object.props[i].key, x)
                 ELSE object.props[i]])
    ELSE Obj(Append(object.props, Prop(<<key>>, x)))

HasId(row, id) == GetProp(row, "id") = Num(id)

\* the rows with the given id
RowsWithId(rows, id) ==
    LET Test(row) == HasId(row, id) IN SelectSeq(rows, Test)

\* SQLiteProvider.update(entityName, id, { age: NewAge }): the table after
\* the call and the result returned
SQLiteUpdate(rows, id, up) ==
    LET changed == [i \in 1..Len(rows) |->
                       IF HasId(rows[i], id)
                       THEN SetProp(rows[i], "age", Num(NewAge))
                       ELSE rows[i]]
        changes == Len(RowsWithId(rows, id))
        updatedRecord == Slice(RowsWithId(changed, id), 1, 1)
    IN  IF up
        THEN [rows |-> changed,
              result |-> Succeeded("sqlite", "update", updatedRecord, 0,
                                   changes)]
        ELSE [rows |-> rows,
              result |-> Failed("sqlite", "update", "UPDATE_FAILED")]

\* SQLiteProvider.delete(entityName, id)
SQLiteDelete(rows, id, up) ==
    LET Kept(row) == ~HasId(row, id)
    IN
    IF up
    THEN [rows |-> SelectSeq(rows, Kept),
          result |-> Succeeded("sqlite", "delete", << >>, 0,
                               Len(RowsWithId(rows, id)))]
    ELSE [rows |-> rows,
          result |-> Failed("sqlite", "delete", "DELETE_FAILED")]

\* MongoDBProvider.update(entityName, id, { age: NewAge }) with a driver
\* whose findOneAndUpdate resolves to the given kind of result
MongoUpdate(docs, id, up, resultKind) ==
    LET first == IF \E i \in 1..Len(docs) : HasId(docs[i], id)
                 THEN CHOOSE i \in 1..Len(docs) :
                         /\ HasId(docs[i], id)
                         /\ \A j \in 1..(i - 1) : ~HasId(docs[j], id)
                 ELSE 0
        changed == [i \in 1..Len(docs) |->
                       IF i = first
                       THEN SetProp(SetProp(docs[i], "age", Num(NewAge)),
                                    "updatedAt", Txt(<<"now">>))
                       ELSE docs[i]]
        updatedData == IF first = 0 THEN << >> ELSE <<changed[first]>>
        \* affectedCount: result.ok ? 1 : 0
        AffectedByUpdate(ok) == IF ok THEN 1 ELSE 0
    IN  IF ~up
        THEN [rows |-> docs,
              result |-> Failed("mongodb", "update", "UPDATE_FAILED")]
        ELSE IF resultKind = "ModifyResult"
        THEN [rows |-> changed,
              result |-> Succeeded("mongodb", "update", updatedData, 0,
                                   AffectedByUpdate(TRUE))]
        ELSE IF first = 0
        THEN [rows |-> docs,
              result |-> Failed("mongodb", "update", "UPDATE_FAILED")]
        ELSE [rows |-> changed,
              result |-> Succeeded("mongodb", "update", updatedData, 0,
                                   AffectedByUpdate(FALSE))]

\* MongoDBProvider.delete(entityName, id): deleteOne removes the first match
MongoDelete(docs, id, up) ==
    LET deletedCount == IF RowsWithId(docs, id) = << >> THEN 0 ELSE 1
        Kept(doc) == ~HasId(doc, id)
    IN  IF up
        THEN [rows |-> SelectSeq(docs, Kept),
              result |-> Succeeded("mongodb", "delete", << >>, 0,
                                   deletedCount)]
        ELSE [rows |-> docs,
              result |-> Failed("mongodb", "delete", "DELETE_FAILED")]

\* --------------------------------------------- the providers at work
\* the queries given to executeQuery; contains, startswith and endswith are
\* left to the backends' own pattern matching and not run here
ExecutedQueries ==
    {Only(f) :
        f \in {Leaf(Txt(<<"age">>), operator, value) :
                 operator \in {"eq", "ne", "lt", "le", "gt", "ge"}
                              \cup UnknownOperators,
                 value \in Numbers}
              \cup {Leaf(Txt(<<"age">>), operator, Arr(xs)) :
                      operator \in {"in", "notin"},
                      xs \in UNION {[1..n -> Numbers] : n \in 0..2}}
              \cup {Leaf(Txt(<<"name">>), operator, Txt(<<"A", "l">>)) :
                      operator \in {"eq", "ne"}}
              \cup CompositeFilters}
    \cup ShapedQueries

ProviderInit ==
    /\ PoolInit
    /\ currentQuery \in ExecutedQueries
    /\ store = [provider \in Providers |-> Dataset]
    /\ reachable = TRUE
    /\ native = NoNative
    /\ response = NoResponse
    /\ recordErrors = << >>
    /\ sessions = NoSessions

\* provider.executeQuery(entityName, currentQuery)
ExecuteQuery(provider) ==
    /\ \E lenient \in (IF provider = "http-odata" THEN BOOLEAN ELSE {FALSE}) :
          response' = executeQuery(provider, store[provider], currentQuery,
                                   reachable, lenient)
    /\ UNCHANGED <<poolState, recordErrors, sessions,
                   currentQuery, store, reachable, native>>

\* provider.update(entityName, id, { age: NewAge })
Update(provider, id) ==
    /\ \E outcome \in
            (IF provider = "sqlite"
             THEN {SQLiteUpdate(store[provider], id, reachable)}
             ELSE {MongoUpdate(store[provider], id, reachable, resultKind) :
                      resultKind \in FindOneAndUpdateResults}) :
          /\ store' = [store EXCEPT ![provider] = outcome.rows]
          /\ response' = outcome.result
    /\ UNCHANGED <<poolState, recordErrors, sessions,
                   currentQuery, reachable, native>>

\* provider.delete(entityName, id)
Delete(provider, id) ==
    /\ LET outcome == IF provider = "sqlite"
                      THEN SQLiteDelete(store[provider], id, reachable)
                      ELSE MongoDelete(store[provider], id, reachable)
       IN  /\ store' = [store EXCEPT ![provider] = outcome.rows]
           /\ response' = outcome.result
    /\ UNCHANGED <<poolState, recordErrors, sessions,
                   currentQuery, reachable, native>>

\* the backends stop answering
BackendFails ==
    /\ reachable
    /\ reachable' = FALSE
    /\ UNCHANGED <<poolState, recordErrors, sessions,
                   currentQuery, store, native, response>>

ProviderNext ==
    \/ \E provider \in Providers : ExecuteQuery(provider)
    \/ \E provider \in {"sqlite", "mongodb"}, id \in Ids : Update(provider, id)
    \/ \E provider \in {"sqlite", "mongodb"}, id \in Ids : Delete(provider, id)
    \/ BackendFails

ProviderSpec == ProviderInit /\ [][ProviderNext]_vars

\* ================================================== provider properties
\* the last call was executeQuery on the query in hand
Answered == response.method = "executeQuery"

\* the set of rows a result holds
RowSet(result) == {result.data[i] : i \in 1..Len(result.data)}

\* ---------------------------------------------------------------- C12
\* C12: when a provider has run a query whose filter is an and-composite of
\* two leaves L1 and L2, every row it returns is a row the same provider
\* returns for L1 alone and for L2 alone.
C12_CompositeAnd ==
    LET TwoLeafAnd ==
            /\ currentQuery.filter # << >>
            /\ currentQuery.filter[1].logicalOperator = "and"
            /\ Len(currentQuery.filter[1].children) = 2
    IN
    (Answered /\ response.success /\ TwoLeafAnd) =>
        \A k \in 1..2 :
            RowSet(response) \subseteq
                RowSet(executeQuery(response.provider,
                                    store[response.provider],
                                    Only(currentQuery.filter[1].children[k]),
                                    TRUE, FALSE))

\* ---------------------------------------------------------------- C13
\* C13: executeQuery with a filter that has an unknown operator (a leaf
\* whose operator is outside the Query model), or with a composite node
\* that has both children and a field, returns success:false with a
\* QUERY_EXECUTION_FAILED error.
C13_TranslationErrors ==
    LET UnknownOperator ==
            /\ currentQuery.filter # << >>
            /\ currentQuery.filter[1].children = << >>
            /\ currentQuery.filter[1].operator \in UnknownOperators
        MalformedComposite ==
            /\ currentQuery.filter # << >>
            /\ currentQuery.filter[1].children # << >>
            /\ currentQuery.filter[1].field # Undefined
    IN
    (Answered /\ (UnknownOperator \/ MalformedComposite)) =>
        /\ ~response.success
        /\ response.errors # << >>
        /\ response.errors[1].code = "QUERY_EXECUTION_FAILED"

\* ---------------------------------------------------------------- C16
\* C16: a provider method that fails returns success:false with at least
\* one error that carries a code, a message and a suggestion.
C16_FailuresCarrySuggestion ==
    (response.provider # "none" /\ ~response.success) =>
        /\ response.errors # << >>
        /\ {"code", "message", "suggestion"}
              \subseteq response.errors[1].properties

\* ---------------------------------------------------------------- C17
\* C17: update and delete on a backend that answers return success:true
\* with affectedCount equal to the number of stored records with the id (0
\* when none matches, 1 when one does); on a backend that fails they return
\* success:false.
C17_AffectedCount ==
    [][\A provider \in {"sqlite", "mongodb"}, id \in Ids :
          (Update(provider, id) \/ Delete(provider, id)) =>
              IF reachable
              THEN /\ response'.success
                   /\ response'.affectedCount
                         = Len(RowsWithId(store[provider], id))
              ELSE ~response'.success]_vars

\* ---------------------------------------------------------------- C18
\* C18: after a successful executeQuery, metadata.count is the number of
\* rows returned in the page.
C18_PageCount ==
    (Answered /\ response.success) => response.count = Len(response.data)

\* ---------------------------------------------------------------- C19
\* C19: when the backends hold the same records and answer, the rows one
\* provider returns for a query with a supported operator (no filter, or a
\* leaf with an operator of the Query model other than contains,
\* startswith, endswith) are the rows each other provider returns for the
\* same query.
C19_CrossBackendEquivalence ==
    LET ComparableQuery ==
            \/ currentQuery.filter = << >>
            \/ /\ currentQuery.filter[1].children = << >>
               /\ currentQuery.filter[1].operator
                     \in Operators \ {"contains", "startswith", "endswith"}
        Replicated == \A a, b \in Providers : store[a] = store[b]
    IN
    (Answered /\ reachable /\ Replicated /\ ComparableQuery) =>
        \A provider \in Providers :
            \E lenient \in BOOLEAN :
                RowSet(executeQuery(provider, store[provider], currentQuery,
                                    TRUE, lenient))
                    = RowSet(response)

\* ---------------------------------------------------------------- C21
\* C21: for a Query with pagination {skip: s, take: t} each translator
\* emits the offset s and the limit t in its idiom (OFFSET / LIMIT of the
\* statement, skip / limit of the cursor, $skip / $top of the query
\* string), and the three translators emit the same offset and the same
\* limit for the same Query, also when skip, take or the whole pagination
\* is absent.  No limit emitted is written -1; an absent skip or take is 0.
C21_Pagination ==
    LET given == currentQuery.pagination # << >>
        s == IF given THEN currentQuery.pagination[1].skip ELSE 0
        t == IF given THEN currentQuery.pagination[1].take ELSE 0
        sql == native.sql[1]
        iLimit == IndexOf(sql, "LIMIT")
        iOffset == IndexOf(sql, "OFFSET")
        relational ==
            [offset |-> IF iOffset = 0 THEN 0 ELSE NumberOf(sql[iOffset + 2]),
             limit |-> IF iLimit = 0 THEN 0 - 1
                       ELSE NumberOf(sql[iLimit + 2])]
        document ==
            [offset |-> cursorWindow(currentQuery).skip,
             limit |-> IF cursorWindow(currentQuery).limit > 0
                       THEN cursorWindow(currentQuery).limit ELSE 0 - 1]
        odata == native.odata[1]
        iTop == IndexOf(odata, "$top=")
        iSkip == IndexOf(odata, "$skip=")
        remote ==
            [offset |-> IF iSkip = 0 THEN 0 ELSE NumberOf(odata[iSkip + 1]),
             limit |-> IF iTop = 0 THEN 0 - 1 ELSE NumberOf(odata[iTop + 1])]
        AsGiven(window) ==
            /\ window.offset = s
            /\ t # 0 => window.limit = t
    IN  /\ native.sql # << >> => AsGiven(relational)
        /\ native.mongo # << >> => AsGiven(document)
        /\ native.odata # << >> => AsGiven(remote)
        /\ Translated => relational = document /\ document = remote

\* ---------------------------------------------------------------- C22
\* C22: inside one getConnection call the wait scheduled after failed
\* attempt n (1 <= n <= maxRetries) is retryDelay * 2^(n-1): 1000, 2000 and
\* 4000 ms; the failure of the last attempt schedules no wait and ends the
\* call; and an attempt after the first starts only when the wait of the
\* attempt before it has elapsed.
C22_ExponentialBackoff ==
    [][\A c \in Callers :
          /\ (calls[c].pc = "connecting" /\ calls'[c].pc = "sleeping")
             => /\ calls[c].attempt \in 1..maxRetries
                /\ calls'[c].delay = 1000 * (2 ^ (calls[c].attempt - 1))
                /\ calls'[c].delay =
                       (CASE calls[c].attempt = 1 -> 1000
                          [] calls[c].attempt = 2 -> 2000
                          [] OTHER -> 4000)
          /\ (calls[c].pc = "connecting" /\ calls'[c].pc = "thrown")
             => /\ calls[c].attempt = maxRetries + 1
                /\ calls'[c].delay = 0
          /\ (calls[c].pc = "connecting" /\ calls[c].attempt <= maxRetries)
             => calls'[c].pc \in {"connecting", "returned", "sleeping"}
          /\ (calls'[c].attempt > 1 /\ calls'[c].attempt # calls[c].attempt)
             => /\ calls[c].pc = "sleeping"
                /\ calls[c].delay = 1000 * (2 ^ (calls[c].attempt - 1))
                /\ calls'[c].attempt = calls[c].attempt + 1
                /\ calls'[c].pc = "connecting"]_vars

\* a call waits 4000 ms after its third failed attempt
C22_Witness ==
    \E c \in Callers :
        /\ calls[c].pc = "sleeping"
        /\ calls[c].attempt = 3
        /\ calls[c].invocations = 3
        /\ calls[c].delay = 4000

\* ---------------------------------------------------------------- C23
\* C23: a step of the pool-wide sweep, the tick that starts its probes or
\* the answer of one of them, healthy or not, changes no record (handle,
\* config, retry count), closes no handle, cancels or starts no health
\* timer and touches no getConnection call, closeAll or per-connection
\* callback, whatever these are in the middle of.
C23_SweepOnlyReports ==
    [][sweeps' # sweeps
       => UNCHANGED <<connections, connectionConfigs, retryAttempts,
                      healthChecks, intervals, closed, issued, calls,
                      checks, closer>>]_vars

\* the sweep ran on two records and one of its probes has answered; the
\* record it was for is still stored with a handle that fails its probe,
\* unclosed and with its timer
C23_Witness ==
    \E s \in sweeps, id \in DOMAIN connections :
        /\ sweeps = {s}
        /\ id # s.connectionId
        /\ MapHas(connections, s.connectionId)
        /\ connections[id] \in failing
        /\ connections[id] \notin closed
        /\ MapGet(healthChecks, id) \in intervals

\* ---------------------------------------------------------------- C26
\* C26: in every state, that is after every atomic step of getConnection,
\* removeConnection, closeAll and the timer callbacks, the ids of the
\* connection map, the ids of the config map, the ids of the health-check
\* map and the ids that have a scheduled health timer are the same set,
\* every one of them has a retry count, and no id has two scheduled
\* health timers.
C26_MapConsistency ==
    /\ DOMAIN connections = DOMAIN connectionConfigs
    /\ DOMAIN connections = DOMAIN healthChecks
    /\ DOMAIN connections = {TimerId(t) : t \in intervals}
    /\ DOMAIN connections \subseteq DOMAIN retryAttempts
    /\ \A t, u \in intervals : TimerId(t) = TimerId(u) => t = u

\* ---------------------------------------------------------------- C24
\* C24: whenever a probe of a stored handle fails, run by the
\* per-connection timer or by a getConnection call that found a record,
\* the step that takes the answer removes the record and closes the handle
\* (for the kinds that have a close); and no call is connecting or waiting
\* in backoff for a replacement while the handle whose probe it saw fail
\* is still stored for its id.
C24_UnhealthyRemoved ==
    /\ [][/\ \A c \in Callers :
                (calls[c].pc = "probing" /\ calls'[c].pc = "connecting")
                => /\ MapGet(connections', CallId(c)) # calls[c].connection
                   /\ HandleType(calls[c].connection) \in {"mongodb", "sqlite"}
                      => calls[c].connection \in closed'
          /\ \A k \in checks \ checks' :
                ~isConnectionHealthy(k.connection, TimerConfig(k.timer))
                => /\ MapGet(connections', TimerId(k.timer)) # k.connection
                   /\ HandleType(k.connection) \in {"mongodb", "sqlite"}
                      => k.connection \in closed']_vars
    /\ [](\A c \in Callers :
             (/\ calls[c].pc \in {"connecting", "sleeping"}
              /\ calls[c].connection # None)
             => MapGet(connections, calls[c].connectionId)
                    # calls[c].connection)

\* ====================================================== ActiveRecord
\* The query builder on an entity with the schema fields age (number) and
\* name (string) and the data type handler of the entity namespaces.
\* the operators where accepts
validOperators == {"eq", "ne", "lt", "le", "gt", "ge", "in", "contains",
                   "startswith", "endswith"}

\* dataTypeHandler.autoConvert(value, targetType) for the types of the
\* schema: parseNumber for number, sanitizeString for string
autoConvert(value, targetType) ==
    LET RECURSIVE trimStart(_)
        trimStart(s) ==
            IF s # << >> /\ Head(s) = " " THEN trimStart(Tail(s)) ELSE s
        RECURSIVE trimEnd(_)
        trimEnd(s) ==
            IF s # << >> /\ s[Len(s)] = " "
            THEN trimEnd(Slice(s, 1, Len(s) - 1)) ELSE s
        trim(s) == trimEnd(trimStart(s))
        \* Number(string): the number a numeral spells, 0 for blank text,
        \* NaN (here null, as parseNumber answers it) for anything else
        parseNumber ==
            CASE value.t = "number" -> value
              [] value.t = "string" ->
                    IF trim(value.s) = << >> THEN Num(0)
                    ELSE IF /\ Len(trim(value.s)) = 1
                            /\ \E n \in 0..DefaultLimit :
                                  ToString(n) = trim(value.s)[1]
                    THEN Num(NumberOf(trim(value.s)[1]))
                    ELSE Null
              [] OTHER -> Null
        sanitizeString == Txt(trim(JSString(value)))
    IN  CASE targetType = "number" -> parseNumber
          [] targetType = "string" -> sanitizeString
          [] OTHER -> value

\* record.where(field, operator, value): the query and the errors of the
\* record afterwards
where(query, errors, field, operator, value) ==
    LET fields == {"age", "name"}
        fieldDef == IF field = "age" THEN "number" ELSE "string"
        filter == Leaf(Txt(<<field>>), operator, autoConvert(value, fieldDef))
    IN  IF field \notin fields
        THEN [query |-> query, errors |-> Append(errors, "INVALID_FIELD")]
        ELSE IF operator \notin validOperators
        THEN [query |-> query, errors |-> Append(errors, "INVALID_OPERATOR")]
        ELSE IF query.filter = << >>
        THEN [query |-> [query EXCEPT !.filter = <<filter>>],
              errors |-> errors]
        ELSE [query |-> [query EXCEPT !.filter =
                            <<WhereComposite("and",
                                             <<query.filter[1], filter>>)>>],
              errors |-> errors]

\* record.buildQuery()
buildQuery == currentQuery

\* where calls made on one record
MaxWheres == 3

\* record.where(field, operator, value) on the record in hand
Where(field, operator, value) ==
    LET RECURSIVE Leaves(_)
        Leaves(node) ==
            IF node.children = << >> THEN 1
            ELSE Leaves(node.children[1]) + Leaves(node.children[2])
        accepted == IF currentQuery.filter = << >> THEN 0
                    ELSE Leaves(currentQuery.filter[1])
        after == where(currentQuery, recordErrors, field, operator, value)
    IN  /\ accepted + Len(recordErrors) < MaxWheres
        /\ currentQuery' = after.query
        /\ recordErrors' = after.errors
        /\ UNCHANGED <<poolState, sessions, store, reachable, native,
                       response>>

BuilderNext ==
    \E field \in {"age", "name", "email"},
       operator \in {"eq", "gt", "in", "notin", "like"},
       value \in {Num(18), Txt(<<"18">>), Txt(<<" ", "A", "l">>),
                  Arr(<<Num(18)>>)} :
        Where(field, operator, value)

BuilderSpec == Init /\ [][BuilderNext]_vars

\* ---------------------------------------------------------------- C25
\* C25: after any sequence of where calls every node of the filter tree
\* that buildQuery() returns is exactly one of two shapes: a leaf with
\* field, operator and value and without logicalOperator and children, or
\* a composite with logicalOperator and children and without field,
\* operator and value.
C25_FilterNodeShape ==
    LET IsLeaf(node) ==
            /\ node.field # Undefined
            /\ node.operator # "undefined"
            /\ node.value # Undefined
            /\ node.logicalOperator = "undefined"
            /\ node.children = << >>
        IsComposite(node) ==
            /\ node.logicalOperator \in {"and", "or"}
            /\ node.children # << >>
            /\ node.field = Undefined
            /\ node.operator = "undefined"
            /\ node.value = Undefined
        RECURSIVE WellShaped(_)
        WellShaped(node) ==
            /\ IsLeaf(node) \/ IsComposite(node)
            /\ \A i \in 1..Len(node.children) : WellShaped(node.children[i])
    IN  buildQuery.filter # << >> => WellShaped(buildQuery.filter[1])

\* ---------------------------------------------------------------- C27
\* C27: in every state, every handle a connector invocation returned to the
\* pool is the handle stored for its id or, when its backend kind has a
\* close operation (mongodb, sqlite), has been closed by the pool; so a
\* getConnection that replaces a stored handle closes the handle it replaces
C27_NoHandleLeak ==
    /\ [](\A h \in Handles :
             HandleType(h) \in {"mongodb", "sqlite"} =>
                 \/ MapGet(connections, TimerId(h)) = h
                 \/ h \in closed)
    /\ [][\A id \in DOMAIN connections :
              /\ MapHas(connections', id)
              /\ connections'[id] # connections[id]
              /\ connectionConfigs[id].type \in {"mongodb", "sqlite"}
              => connections[id] \in closed']_vars

ShutdownGetConnection(c, connectionId, config) ==
    /\ closer = "idle"
    /\ GetConnection(c, connectionId, config)

ShutdownNext ==
    \/ \E c \in Callers, r \in Requests :
           ShutdownGetConnection(c, r[1], r[2])
    \/ \E c \in Callers : HealthAnswer(c)
    \/ \E c \in Callers : ConnectionEstablished(c)
    \/ \E c \in Callers : ConnectionAttemptFailed(c)
    \/ \E c \in Callers : BackoffElapsed(c)
    \/ \E c \in Callers : CallSettled(c)
    \/ \E t \in intervals : HealthCheckTick(t)
    \/ \E k \in checks : HealthCheckAnswer(k)
    \/ SweepTick
    \/ \E s \in sweeps : SweepAnswer(s)
    \/ \E connectionId \in ConnectionIds : RemoveConnection(connectionId)
    \/ CloseAllBegin
    \/ CloseAllEnd
    \/ \E h \in Handles : ProbeStartsFailing(h)

ShutdownSpec == Init /\ [][ShutdownNext]_vars

\* C29: once closeAll() has resolved and no getConnection call is issued
\* after it, the pool holds no record and no per-connection health timer: a
\* call that was connecting or waiting in backoff when closeAll ran adds no
\* record and starts no timer afterwards
C29_TeardownFinal ==
    closer = "resolved" =>
        /\ connections = EmptyMap
        /\ healthChecks = EmptyMap
        /\ intervals = {}

\* ---------------------------------------- connect, disconnect, isConnected
MaxOpens == 2                        \* backend handles one provider creates

\* the step of connect() that throws, or "ok". SQLite: new Database, a
\* pragma (the test query reads no page of the file and is taken to succeed
\* once the pragmas have); MongoDB: new MongoClient, client.connect(), ping;
\* HTTP: the request of the service document (getServiceCapabilities
\* catches its own errors)
Outcomes(provider) ==
    CASE provider = "sqlite" -> {"constructor", "pragma", "ok"}
      [] provider = "mongodb" -> {"constructor", "connect", "ping", "ok"}
      [] OTHER -> {"request", "ok"}

\* isConnected() of the provider whose fields are `session`
isConnected(provider, session) ==
    IF provider = "http-odata" THEN session.connected
    ELSE /\ session.connected
         /\ session.handle # 0
         /\ session.handles[session.handle] = "open"

\* connect(): the fields when it returns, `outcome` naming the step that
\* threw; the catch block only builds the result
connect(provider, session, outcome) ==
    LET Created(state) ==
            [session EXCEPT !.handles = Append(@, state),
                            !.handle = Len(session.handles) + 1]
        Returns(fields, result) == [fields EXCEPT !.returned = result]
        Connected(fields) == [fields EXCEPT !.connected = TRUE]
    IN  CASE outcome \in {"constructor", "request"} ->
                 Returns(session, "failure")
          [] outcome = "pragma" -> Returns(Created("open"), "failure")
          [] outcome = "connect" -> Returns(Created("closed"), "failure")
          [] outcome = "ping" ->
                 Returns(Connected(Created("open")), "failure")
          [] OTHER ->
                 IF provider = "http-odata"
                 THEN Returns(Connected(session), "success")
                 ELSE Returns(Connected(Created("open")), "success")

\* disconnect(): the fields when it returns
disconnect(provider, session) ==
    IF provider = "http-odata"
    THEN [session EXCEPT !.connected = FALSE, !.returned = "disconnected"]
    ELSE IF session.handle = 0
    THEN [session EXCEPT !.returned = "disconnected"]
    ELSE [session EXCEPT !.handles[session.handle] = "closed",
                         !.connected = FALSE,
                         !.returned = "disconnected"]

Connect(provider, outcome) ==
    /\ Len(sessions[provider].handles) < MaxOpens
    /\ sessions' = [sessions EXCEPT
           ![provider] = connect(provider, sessions[provider], outcome)]
    /\ UNCHANGED <<poolState, currentQuery, store, reachable, native,
                   response, recordErrors>>

Disconnect(provider) ==
    /\ sessions' = [sessions EXCEPT
           ![provider] = disconnect(provider, sessions[provider])]
    /\ UNCHANGED <<poolState, currentQuery, store, reachable, native,
                   response, recordErrors>>

SessionNext ==
    \/ \E provider \in Providers :
           \E outcome \in Outcomes(provider) : Connect(provider, outcome)
    \/ \E provider \in Providers : Disconnect(provider)

SessionSpec == Init /\ [][SessionNext]_vars

\* ---------------------------------------------------------------- C30
\* C30: for each provider, isConnected() is false before any call; after a
\* connect() that returned success:true it is true; after a connect() that
\* returned success:false it is false and no backend handle the provider
\* created is open; after disconnect() it is false
C30_ConnectionState ==
    \A provider \in Providers :
        LET session == sessions[provider]
            open == {i \in 1..Len(session.handles) :
                        session.handles[i] = "open"}
        IN  /\ session.returned = "success" =>
                   isConnected(provider, session)
            /\ session.returned \in {"none", "disconnected"} =>
                   ~isConnected(provider, session)
            /\ session.returned = "failure" =>
                   ~isConnected(provider, session) /\ open = {}

====
